---- MODULE Spec2Model ----
(***************************************************************************)
(* Off-chain price oracle: per-source health tracking with exponential     *)
(* backoff (SourceManager), median aggregation with outlier and drift      *)
(* filters (PriceAggregator), the per-pair observer (PairObserver) and the *)
(* per-pair observation loop of the orchestrator (PriceOracle).            *)
(*                                                                         *)
(* Representation.  Time is counted in whole seconds.  A Python float      *)
(* price x is the integer x * PriceUnit; the inputs are chosen so that the *)
(* two middle values of an even count add up to an even number of units,   *)
(* and the mean the code computes is then a whole number of units too.     *)
(* An optional value is <<>> (None) or <<v>>.  A dict is a function; where *)
(* the order of its keys shows in a result the order is passed with it.    *)
(***************************************************************************)
EXTENDS Integers, Sequences, FiniteSets, TLC

VARIABLES
    now,               \* time.time(), in seconds
    sources,           \* per pair: SourceManager.sources (list)
    status,            \* per pair: SourceManager._status (dict name -> SourceStatus)
    ret,               \* the last direct SourceManager call and what it returned
    prices,            \* per pair: the prices dict handed to aggregate
    agg_result,        \* per pair: the last AggregationResult
    drift_limit,       \* PriceAggregator.drift_limit_percent: optional percentage
    observations,      \* per pair: list of (price_scaled, timestamp)
    last_submit,       \* per pair: time of the last submission
    last_good_median,  \* per pair: optional float
    round_id,          \* per pair: round counter
    decimals,          \* per pair: decimals() of the aggregator contract
    latest_round_data, \* per pair: latestRoundData() read at construction: <<roundId, answer>>
    tx,                \* per pair: the last submitObservation call handed to submit_tx
    submit_result,     \* per pair: how the last submit_tx call ended
    pc,                \* per pair: where the observation loop task stands
    wake_at,           \* per pair: when the loop's asyncio.sleep ends
    active_sources,    \* per pair: the tick's active list (sources being fetched)
    usdt_rate,         \* UsdtRateCache._rate
    usdt_timestamp,    \* UsdtRateCache._timestamp
    fetchers,          \* the adapters: dict name -> fetcher (what its methods do)
    args,              \* the arguments of the call under study
    returned,          \* what the call under study returned, or how it ended
    chain,             \* per pair: the directory entry and the aggregator contract on chain
    contracts,         \* PriceOracle.contracts: dict pair -> contract handle
    interactions       \* the calls made to the chain and to the signing daemon, in order

smVars    == <<sources, status, ret>>
aggVars   == <<prices, agg_result, drift_limit>>
obsVars   == <<observations, last_submit, last_good_median, round_id, decimals,
               latest_round_data, tx, submit_result>>
loopVars  == <<pc, wake_at, active_sources>>
cacheVars == <<usdt_rate, usdt_timestamp>>
callVars  == <<fetchers, args, returned>>
chainVars == <<chain, contracts, interactions>>
vars      == <<now, smVars, aggVars, obsVars, loopVars, cacheVars, callVars, chainVars>>

(***************************************************************************)
(* Bounds of the model.                                                    *)
(***************************************************************************)
\* SourceManager alone: the clock stops here
MaxTimeSM == 10
\* SourceManager alone: at most this many failures are recorded per source
MaxFailures == 9
\* SourceManager alone: at most this many successes are recorded per source
MaxSuccesses == 1
\* observation loops: the clock stops here
MaxTimeLoop == 9
\* observers alone: the clock stops here
MaxTimeObs == 7
\* observers alone: receive_prices is called at most this often
MaxCalls == 3
\* at most this many submissions are handed to the daemon
MaxRounds == 2

(***************************************************************************)
(* Program constants.                                                      *)
(***************************************************************************)
DEFAULT_BASE_BACKOFF_SECONDS == 5
DEFAULT_MAX_BACKOFF_SECONDS == 300
\* PriceAggregator / PriceOracle defaults
min_sources == 2
max_deviation_percent == 5
drift_limit_percent == 10
\* One price unit of a float: 1.0 is PriceUnit
PriceUnit == 4

AllSources == <<"a", "b", "c">>
Pairs == {"btc/usd", "usdt/usd"}
SeqToSet(q) == {q[i] : i \in DOMAIN q}
None == <<>>
Some(v) == <<v>>

(***************************************************************************)
(* Arithmetic helpers.                                                     *)
(***************************************************************************)
Min2(x, y) == IF x <= y THEN x ELSE y
Max2(x, y) == IF x >= y THEN x ELSE y
Abs(x) == IF x < 0 THEN -x ELSE x

RECURSIVE Pow(_, _)
Pow(b, n) == IF n = 0 THEN 1 ELSE b * Pow(b, n - 1)

(***************************************************************************)
(* SourceManager                                                           *)
(***************************************************************************)
SourceStatus ==
    [consecutive_failures |-> 0, backoff_until |-> 0,
     total_failures |-> 0, total_successes |-> 0]

\* SourceManager.__init__: _status = {s: SourceStatus() for s in sources}
NewStatus(srcs) == [s \in {srcs[i] : i \in DOMAIN srcs} |-> SourceStatus]

\* a plausible slip: the cap is forgotten
backoff_seconds_uncapped(consecutive_failures) ==
    DEFAULT_BASE_BACKOFF_SECONDS * Pow(2, consecutive_failures - 1)

\* min(base * 2 ** (consecutive_failures - 1), max)
backoff_seconds(consecutive_failures) ==
    Min2(DEFAULT_BASE_BACKOFF_SECONDS * Pow(2, consecutive_failures - 1),
         DEFAULT_MAX_BACKOFF_SECONDS)

\* if source not in self._status: self._status[source] = SourceStatus()
EnsureStatus(st, source) ==
    IF source \in DOMAIN st THEN st ELSE st @@ (source :> SourceStatus)

\* a plausible slip: a failure puts every source of the manager into backoff
record_failure_global(st, source, t) ==
    LET st1 == EnsureStatus(st, source)
        cf  == st1[source].consecutive_failures + 1
    IN  [s \in DOMAIN st1 |->
            [consecutive_failures |-> IF s = source THEN cf
                                      ELSE st1[s].consecutive_failures,
             backoff_until        |-> t + backoff_seconds(cf),
             total_failures       |-> IF s = source THEN st1[s].total_failures + 1
                                      ELSE st1[s].total_failures,
             total_successes      |-> st1[s].total_successes]]

\* record_failure: the new _status; the value returned is
\* backoff_seconds of the new consecutive_failures
record_failure(st, source, t) ==
    LET st1 == EnsureStatus(st, source)
        old == st1[source]
        cf  == old.consecutive_failures + 1
    IN  [st1 EXCEPT ![source] =
            [consecutive_failures |-> cf,
             backoff_until        |-> t + backoff_seconds(cf),
             total_failures       |-> old.total_failures + 1,
             total_successes      |-> old.total_successes]]

record_failure_returns(st, source) ==
    backoff_seconds(EnsureStatus(st, source)[source].consecutive_failures + 1)

\* a plausible slip: the failure count is reset but the backoff is left running
record_success_keeps_backoff(st, source) ==
    LET st1 == EnsureStatus(st, source)
        old == st1[source]
    IN  [st1 EXCEPT ![source] =
            [consecutive_failures |-> 0,
             backoff_until        |-> old.backoff_until,
             total_failures       |-> old.total_failures,
             total_successes      |-> old.total_successes + 1]]

record_success(st, source) ==
    LET st1 == EnsureStatus(st, source)
        old == st1[source]
    IN  [st1 EXCEPT ![source] =
            [consecutive_failures |-> 0,
             backoff_until        |-> 0,
             total_failures       |-> old.total_failures,
             total_successes      |-> old.total_successes + 1]]

\* a plausible slip: the backoff filter is left out
get_active_sources_all(srcs, st, t) == srcs

\* a plausible slip: a source stays in backoff at the instant it expires
get_active_sources_strict(srcs, st, t) ==
    SelectSeq(srcs, LAMBDA s : t > st[s].backoff_until)

\* [s for s in self.sources if now >= self._status[s].backoff_until]
get_active_sources(srcs, st, t) ==
    SelectSeq(srcs, LAMBDA s : t >= st[s].backoff_until)

\* is_source_active: False for an unknown source
is_source_active(st, source, t) ==
    IF source \notin DOMAIN st THEN FALSE ELSE t >= st[source].backoff_until

(***************************************************************************)
(* PriceAggregator                                                         *)
(***************************************************************************)
\* the keys of a dict that was filled in the order of AllSources
Keys(d) == SelectSeq(AllSources, LAMBDA s : s \in DOMAIN d)
\* d.values()
Values(d) == [i \in 1..Len(Keys(d)) |-> d[Keys(d)[i]]]
Restrict(d, S) == [k \in S |-> d[k]]

RECURSIVE Insert(_, _)
Insert(sorted, x) ==
    IF sorted = <<>> THEN <<x>>
    ELSE IF x <= Head(sorted) THEN <<x>> \o sorted
    ELSE <<Head(sorted)>> \o Insert(Tail(sorted), x)

RECURSIVE SortInts(_)
SortInts(data) ==
    IF data = <<>> THEN <<>> ELSE Insert(SortInts(Tail(data)), Head(data))

\* a plausible slip: the mean of the two middle elements is not halved
median_unhalved(values) ==
    LET data == SortInts(values)
        n    == Len(data)
    IN  IF n % 2 = 1 THEN data[(n \div 2) + 1]
        ELSE data[n \div 2] + data[(n \div 2) + 1]

\* statistics.median: the middle element of the sorted data, or the mean of
\* the two middle elements (data[i - 1] + data[i]) / 2 with i = n // 2; the
\* sum of the two is even for every input of the specifications below
median(values) ==
    LET data == SortInts(values)
        n    == Len(data)
    IN  IF n % 2 = 1 THEN data[(n \div 2) + 1]
        ELSE (data[n \div 2] + data[(n \div 2) + 1]) \div 2

\* a plausible slip: a price exactly at the threshold is dropped
within_deviation_strict(price, initial_median) ==
    100 * Abs(price - initial_median) < max_deviation_percent * initial_median

\* abs(price - initial_median) / initial_median * 100 <= max_deviation_percent,
\* for initial_median > 0
within_deviation(price, initial_median) ==
    100 * Abs(price - initial_median) <= max_deviation_percent * initial_median

\* a plausible slip: the drift is measured against the candidate price
drift_exceeded_of_candidate(final_median, previous_price) ==
    100 * Abs(final_median - previous_price) > drift_limit[1] * final_median

\* a plausible slip: a drift equal to the limit is rejected too
drift_exceeded_inclusive(final_median, previous_price) ==
    100 * Abs(final_median - previous_price) >= drift_limit[1] * previous_price

\* abs(final_median - previous_price) / previous_price * 100 > self.drift_limit_percent,
\* for previous_price > 0 and a limit that is set
drift_exceeded(final_median, previous_price) ==
    100 * Abs(final_median - previous_price) > drift_limit[1] * previous_price

\* a plausible slip: the v > 0 part of the filter is left out
is_valid_price_not_none(v) == v # None

\* v is not None and v > 0
is_valid_price(v) == v # None /\ v[1] > 0

\* a plausible slip: exactly min_sources prices are refused too
too_few_inclusive(n) == n <= min_sources

\* len(...) < self.min_sources
too_few(n) == n < min_sources

\* PriceAggregator.aggregate(prices, previous_price=...): prices is the dict
\* prs whose keys were inserted in the order of the sequence keys
aggregate(keys, prs, previous_price) ==
    LET valid == Restrict([k \in DOMAIN prs |-> IF prs[k] = None THEN 0 ELSE prs[k][1]],
                          {k \in DOMAIN prs : is_valid_price(prs[k])})
    IN  IF too_few(Cardinality(DOMAIN valid))
        THEN [price |-> None,
              metadata |-> [error |-> "insufficient_sources",
                            available |-> Cardinality(DOMAIN valid)]]
        ELSE
        LET initial_median == median(Values(valid))
            filtered == Restrict(valid,
                 {k \in DOMAIN valid : within_deviation(valid[k], initial_median)})
            dropped == Restrict(valid,
                 {k \in DOMAIN valid : ~within_deviation(valid[k], initial_median)})
        IN  IF too_few(Cardinality(DOMAIN filtered))
            THEN [price |-> None,
                  metadata |-> [error |-> "too_many_outliers", dropped |-> dropped]]
            ELSE
            LET final_median == median(Values(filtered))
            IN  IF /\ previous_price # None
                   /\ drift_limit # None
                   /\ drift_exceeded(final_median, previous_price[1])
                THEN [price |-> None,
                      metadata |-> [error |-> "drift_too_large",
                                    drift_percent |->
                                        <<100 * Abs(final_median - previous_price[1]),
                                          previous_price[1]>>,
                                    previous_price |-> previous_price[1],
                                    candidate_price |-> final_median]]
                ELSE [price |-> Some(final_median),
                      metadata |-> [sources |-> SelectSeq(keys, LAMBDA k : k \in DOMAIN filtered),
                                    dropped |-> dropped,
                                    count |-> Cardinality(DOMAIN filtered),
                                    initial_median |-> initial_median]]

\* AggregationResult.success
success(result) == result.price # None
\* AggregationResult.error
error(result) == IF result.price = None THEN result.metadata.error ELSE "none"

(***************************************************************************)
(* The SourceManager of one pair driven directly by its caller.            *)
(***************************************************************************)
SMPair == "btc/usd"
SMSources == <<"a", "b">>
\* the clock advances by one base backoff at a time
SMTimeStep == DEFAULT_BASE_BACKOFF_SECONDS

NoRet == [op |-> "none", source |-> "", value |-> 0, time |-> 0]

IdleObs ==
    /\ observations = [p \in Pairs |-> <<>>]
    /\ last_submit = [p \in Pairs |-> 0]
    /\ last_good_median = [p \in Pairs |-> None]
    /\ round_id = [p \in Pairs |-> 0]
    /\ decimals = [p \in Pairs |-> 1]
    /\ latest_round_data = [p \in Pairs |-> <<0, 0>>]
    /\ tx = [p \in Pairs |-> None]
    /\ submit_result = [p \in Pairs |-> "none"]

IdleLoop ==
    /\ pc = [p \in Pairs |-> "idle"]
    /\ wake_at = [p \in Pairs |-> 0]
    /\ active_sources = [p \in Pairs |-> <<>>]

IdleAgg ==
    /\ prices = [p \in Pairs |-> <<>>]
    /\ agg_result = [p \in Pairs |-> None]
    /\ drift_limit = Some(drift_limit_percent)

IdleCache ==
    /\ usdt_rate = None
    /\ usdt_timestamp = 0

IdleCall ==
    /\ fetchers = <<>>
    /\ args = <<>>
    /\ returned = <<>>

IdleChain ==
    /\ chain = <<>>
    /\ contracts = <<>>
    /\ interactions = <<>>

InitSM ==
    /\ now = 0
    /\ sources = [p \in Pairs |-> SMSources]
    /\ status = [p \in Pairs |-> NewStatus(SMSources)]
    /\ ret = NoRet
    /\ IdleAgg /\ IdleObs /\ IdleLoop /\ IdleCache /\ IdleChain /\ IdleCall

SMRecordFailure(s) ==
    /\ status[SMPair][s].total_failures < MaxFailures
    /\ status' = [status EXCEPT ![SMPair] = record_failure(@, s, now)]
    /\ ret' = [op |-> "record_failure", source |-> s,
               value |-> record_failure_returns(status[SMPair], s), time |-> now]
    /\ UNCHANGED <<now, sources, aggVars, obsVars, loopVars, cacheVars, chainVars, callVars>>

SMRecordSuccess(s) ==
    /\ status[SMPair][s].total_successes < MaxSuccesses
    /\ status' = [status EXCEPT ![SMPair] = record_success(@, s)]
    /\ ret' = [op |-> "record_success", source |-> s, value |-> 0, time |-> now]
    /\ UNCHANGED <<now, sources, aggVars, obsVars, loopVars, cacheVars, chainVars, callVars>>

\* get_active_sources(): ret keeps the list returned
SMGetActive ==
    /\ ret' = [op |-> "get_active_sources", source |-> "",
               value |-> get_active_sources(sources[SMPair], status[SMPair], now),
               time |-> now]
    /\ UNCHANGED <<now, sources, status, aggVars, obsVars, loopVars, cacheVars, chainVars, callVars>>

SMAdvance ==
    /\ now + SMTimeStep <= MaxTimeSM
    /\ now' = now + SMTimeStep
    /\ UNCHANGED <<smVars, aggVars, obsVars, loopVars, cacheVars, chainVars, callVars>>

NextSM ==
    \/ \E s \in {"a", "b"} : SMRecordFailure(s)
    \/ \E s \in {"a", "b"} : SMRecordSuccess(s)
    \/ SMGetActive
    \/ SMAdvance

SpecSM == InitSM /\ [][NextSM]_vars

(***************************************************************************)
(* C2: the k-th consecutive record_failure returns min(base * 2^(k-1),     *)
(* max), which with base 5 and max 300 is the ladder 5, 10, 20, 40, 80,    *)
(* 160, 300, 300, ...; it lies in [base, max] and backoff_until is set to  *)
(* the time of the call plus the value returned.                           *)
(***************************************************************************)
Ladder == <<5, 10, 20, 40, 80, 160, 300>>

C2_BackoffLadder ==
    ret.op = "record_failure" =>
        LET k == status[SMPair][ret.source].consecutive_failures
        IN  /\ k >= 1
            /\ ret.value = (IF k <= Len(Ladder) THEN Ladder[k] ELSE 300)
            /\ ret.value >= DEFAULT_BASE_BACKOFF_SECONDS
            /\ ret.value <= DEFAULT_MAX_BACKOFF_SECONDS
            /\ status[SMPair][ret.source].backoff_until = ret.time + ret.value

C2_Witness ==
    /\ ret.op = "record_failure"
    /\ status[SMPair][ret.source].consecutive_failures = 8
    /\ ret.value = 300
    /\ ret.time > 0

\* a step in which record_failure ran: ret' tells for which source
RecordFailureStep ==
    status'[SMPair] # status[SMPair] /\ ret'.op = "record_failure"

(***************************************************************************)
(* C17: after record_success(s), whatever the number of failures before,   *)
(* s is active at once (is_source_active(s) holds and s is in              *)
(* get_active_sources), its consecutive_failures is 0 and its              *)
(* backoff_until is 0, so that the next record_failure(s) returns the base *)
(* backoff again.                                                          *)
(***************************************************************************)
C17_SuccessResets ==
    /\ [](ret.op = "record_success" =>
             /\ status[SMPair][ret.source].consecutive_failures = 0
             /\ status[SMPair][ret.source].backoff_until = 0
             /\ is_source_active(status[SMPair], ret.source, ret.time)
             /\ is_source_active(status[SMPair], ret.source, now)
             /\ ret.source \in
                    SeqToSet(get_active_sources(sources[SMPair], status[SMPair],
                                                ret.time)))
    /\ [][(/\ RecordFailureStep
           /\ status[SMPair][ret'.source].consecutive_failures = 0) =>
              ret'.value = DEFAULT_BASE_BACKOFF_SECONDS]_vars

\* a success recorded at time 0 for a source that had failed seven times at
\* time 0 and so was in backoff until then
C17_Witness ==
    /\ ret.op = "record_success"
    /\ now = 0
    /\ status[SMPair][ret.source].total_failures >= 7
    /\ status[SMPair][ret.source].total_successes = 1

(***************************************************************************)
(* The cap of the backoff in SourceManager: backoff_until is at most the   *)
(* time of the most recent failure plus max_backoff, so that the source    *)
(* is active again max_backoff seconds (300) after it, however many        *)
(* consecutive failures it has accumulated; backoff_until changes only to  *)
(* 0 or, at a failure, to a time within max_backoff of that failure.       *)
(***************************************************************************)
BackoffWithinCap ==
    /\ [](/\ \A s \in DOMAIN status[SMPair] :
                status[SMPair][s].backoff_until
                    <= now + DEFAULT_MAX_BACKOFF_SECONDS
          /\ ret.op = "record_failure" =>
                /\ status[SMPair][ret.source].backoff_until
                       <= ret.time + DEFAULT_MAX_BACKOFF_SECONDS
                /\ is_source_active(status[SMPair], ret.source,
                                    ret.time + DEFAULT_MAX_BACKOFF_SECONDS)
                /\ ret.source \in
                       SeqToSet(get_active_sources(
                                    sources[SMPair], status[SMPair],
                                    ret.time + DEFAULT_MAX_BACKOFF_SECONDS)))
    /\ [][\A s \in DOMAIN status[SMPair] :
             status'[SMPair][s].backoff_until # status[SMPair][s].backoff_until =>
                 \/ status'[SMPair][s].backoff_until = 0
                 \/ /\ RecordFailureStep /\ ret'.source = s
                    /\ status'[SMPair][s].backoff_until > now
                    /\ status'[SMPair][s].backoff_until
                           <= now + DEFAULT_MAX_BACKOFF_SECONDS]_vars

\* the position of source s in the configured list
IndexOf(srcs, s) == CHOOSE i \in DOMAIN srcs : srcs[i] = s

(***************************************************************************)
(* C19: get_active_sources returns exactly the tracked sources with        *)
(* now >= backoff_until, in the configured order; a source is active at    *)
(* the instant now equals backoff_until, and all sources are active        *)
(* initially.                                                              *)
(***************************************************************************)
C19_ActiveSourcesExact ==
    ret.op = "get_active_sources" =>
        LET srcs == sources[SMPair]
            act  == ret.value
        IN  /\ \A s \in SeqToSet(srcs) :
                   s \in SeqToSet(act) <=>
                       ret.time >= status[SMPair][s].backoff_until
            /\ SeqToSet(act) \subseteq SeqToSet(srcs)
            /\ \A i, j \in DOMAIN act :
                   i < j => IndexOf(srcs, act[i]) < IndexOf(srcs, act[j])
            /\ (\A s \in SeqToSet(srcs) :
                    status[SMPair][s].total_failures = 0) => act = srcs

\* one source is returned at the instant its backoff ends while the other
\* is still in backoff
C19_Witness ==
    /\ ret.op = "get_active_sources"
    /\ ret.time > 0
    /\ \E s \in SeqToSet(sources[SMPair]) :
           /\ status[SMPair][s].backoff_until = ret.time
           /\ ret.value = <<s>>
    /\ \E s \in SeqToSet(sources[SMPair]) :
           status[SMPair][s].backoff_until > ret.time

(***************************************************************************)
(* aggregate as a pure function: the inputs are drawn at the start and     *)
(* the single step applies it.                                             *)
(***************************************************************************)
AggPair == "btc/usd"
AggSources == {"a", "b", "c"}
\* None, 0.0, -1.0, 90.0, 100.0, 105.0, 106.0, 110.0, 111.0
AggPrices == {None, Some(0), Some(-4), Some(360), Some(400), Some(420), Some(424),
              Some(440), Some(444)}
\* None, 100.0
AggPrevious == {None, Some(400)}
\* the drift guard disabled, or the orchestrator's default of 10 percent
AggDriftLimits == {None, Some(drift_limit_percent)}

InitAgg ==
    /\ now = 0
    /\ sources = [p \in Pairs |-> <<"a", "b", "c">>]
    /\ status = [p \in Pairs |-> NewStatus(<<"a", "b", "c">>)]
    /\ ret = NoRet
    /\ \E d \in [AggSources -> AggPrices] :
           prices = [p \in Pairs |-> IF p = AggPair THEN d ELSE <<>>]
    /\ agg_result = [p \in Pairs |-> None]
    /\ drift_limit \in AggDriftLimits
    /\ \E prev \in AggPrevious :
           last_good_median = [p \in Pairs |-> IF p = AggPair THEN prev ELSE None]
    /\ observations = [p \in Pairs |-> <<>>]
    /\ last_submit = [p \in Pairs |-> 0]
    /\ round_id = [p \in Pairs |-> 0]
    /\ decimals = [p \in Pairs |-> 1]
    /\ latest_round_data = [p \in Pairs |-> <<0, 0>>]
    /\ tx = [p \in Pairs |-> None]
    /\ submit_result = [p \in Pairs |-> "none"]
    /\ IdleLoop /\ IdleCache /\ IdleChain /\ IdleCall

Aggregate ==
    /\ agg_result[AggPair] = None
    /\ agg_result' = [agg_result EXCEPT ![AggPair] =
                         Some(aggregate(Keys(prices[AggPair]), prices[AggPair],
                                        last_good_median[AggPair]))]
    /\ UNCHANGED <<now, smVars, prices, drift_limit, obsVars, loopVars, cacheVars, chainVars, callVars>>

NextAgg == Aggregate

SpecAgg == InitAgg /\ [][NextAgg]_vars

MinOf(S) == CHOOSE x \in S : \A y \in S : x <= y
MaxOf(S) == CHOOSE x \in S : \A y \in S : x >= y

\* the prices of the sources a successful result reports as used
UsedPrices(p) ==
    LET used == agg_result[p][1].metadata.sources
    IN  {prices[p][used[i]][1] : i \in DOMAIN used}

(***************************************************************************)
(* C10: whenever aggregate succeeds, the returned price is at least the    *)
(* minimum and at most the maximum of the prices that survived the outlier *)
(* filter.                                                                 *)
(***************************************************************************)
C10_PriceWithinFiltered ==
    (agg_result[AggPair] # None /\ success(agg_result[AggPair][1])) =>
        /\ UsedPrices(AggPair) # {}
        /\ agg_result[AggPair][1].price[1] >= MinOf(UsedPrices(AggPair))
        /\ agg_result[AggPair][1].price[1] <= MaxOf(UsedPrices(AggPair))

\* an outlier was dropped and the median is the mean of two different prices
C10_Witness ==
    /\ agg_result[AggPair] # None
    /\ success(agg_result[AggPair][1])
    /\ DOMAIN agg_result[AggPair][1].metadata.dropped # {}
    /\ agg_result[AggPair][1].price[1] > MinOf(UsedPrices(AggPair))
    /\ agg_result[AggPair][1].price[1] < MaxOf(UsedPrices(AggPair))

\* the input sources of aggregate whose price is not None and strictly positive
ValidInput(p) ==
    {k \in DOMAIN prices[p] : prices[p][k] # None /\ prices[p][k][1] > 0}

\* the i-th smallest (1-based) of the input prices of the sources in K
OrderStat(p, K, i) ==
    CHOOSE v \in {prices[p][k][1] : k \in K} :
        /\ Cardinality({k \in K : prices[p][k][1] < v}) < i
        /\ Cardinality({k \in K : prices[p][k][1] <= v}) >= i

\* twice the median of the input prices of the sources in K (K not empty):
\* twice the middle price, or the sum of the two middle prices
TwiceMedian(p, K) ==
    LET n == Cardinality(K)
    IN  IF n % 2 = 1 THEN 2 * OrderStat(p, K, (n + 1) \div 2)
        ELSE OrderStat(p, K, n \div 2) + OrderStat(p, K, (n \div 2) + 1)

\* 100 * |price - median| compared with max_deviation_percent * median, both
\* doubled, for the median of all valid input prices
DeviationTimes200(p, k) ==
    100 * Abs(2 * prices[p][k][1] - TwiceMedian(p, ValidInput(p)))
DeviationLimitTimes200(p) ==
    max_deviation_percent * TwiceMedian(p, ValidInput(p))

\* the valid input sources that deviate by at most max_deviation_percent
Survivors(p) ==
    {k \in ValidInput(p) : DeviationTimes200(p, k) <= DeviationLimitTimes200(p)}

\* the drift guard is armed: a previous price and a limit are both set
DriftArmed(p) == last_good_median[p] # None /\ drift_limit # None
\* 100 * |final - previous| compared with limit * previous, both doubled
DriftTimes200(p) ==
    100 * Abs(TwiceMedian(p, Survivors(p)) - 2 * last_good_median[p][1])
DriftLimitTimes200(p) == drift_limit[1] * 2 * last_good_median[p][1]

(***************************************************************************)
(* C11: in aggregate a valid source is placed in the dropped map if and    *)
(* only if its price deviates from the initial median (the median of all   *)
(* valid prices) by strictly more than max_deviation_percent percent; a    *)
(* price exactly at the threshold is kept.                                 *)
(***************************************************************************)
C11_DroppedIffBeyondThreshold ==
    (/\ agg_result[AggPair] # None
     /\ error(agg_result[AggPair][1]) \in {"none", "too_many_outliers"}) =>
        LET dropped == agg_result[AggPair][1].metadata.dropped
        IN  /\ DOMAIN dropped \subseteq ValidInput(AggPair)
            /\ \A k \in ValidInput(AggPair) :
                   /\ k \in DOMAIN dropped <=>
                          DeviationTimes200(AggPair, k) > DeviationLimitTimes200(AggPair)
                   /\ k \in DOMAIN dropped => dropped[k] = prices[AggPair][k][1]

\* one source is dropped and another, exactly at the threshold, is used
C11_Witness ==
    /\ agg_result[AggPair] # None
    /\ success(agg_result[AggPair][1])
    /\ DOMAIN agg_result[AggPair][1].metadata.dropped # {}
    /\ \E k \in ValidInput(AggPair) :
           /\ prices[AggPair][k][1] * 2 # TwiceMedian(AggPair, ValidInput(AggPair))
           /\ DeviationTimes200(AggPair, k) = DeviationLimitTimes200(AggPair)
           /\ k \notin DOMAIN agg_result[AggPair][1].metadata.dropped
           /\ \E i \in DOMAIN agg_result[AggPair][1].metadata.sources :
                  agg_result[AggPair][1].metadata.sources[i] = k

(***************************************************************************)
(* C12: whenever aggregate succeeds, the sources used and the dropped      *)
(* sources are disjoint, their union is exactly the set of input sources   *)
(* whose price is not None and strictly positive, and count is the number  *)
(* of sources used.                                                        *)
(***************************************************************************)
C12_UsedAndDroppedPartitionValid ==
    (agg_result[AggPair] # None /\ success(agg_result[AggPair][1])) =>
        LET meta == agg_result[AggPair][1].metadata
            used == {meta.sources[i] : i \in DOMAIN meta.sources}
        IN  /\ used \cap DOMAIN meta.dropped = {}
            /\ used \cup DOMAIN meta.dropped = ValidInput(AggPair)
            /\ meta.count = Cardinality(used)
            /\ meta.count = Len(meta.sources)

\* a success whose input holds a price that is not positive, next to used ones
C12_Witness ==
    /\ agg_result[AggPair] # None
    /\ success(agg_result[AggPair][1])
    /\ agg_result[AggPair][1].metadata.count = 2
    /\ \E k \in DOMAIN prices[AggPair] :
           prices[AggPair][k] # None /\ prices[AggPair][k][1] <= 0

\* what aggregate must answer, stage by stage
ExpectedError(p) ==
    IF Cardinality(ValidInput(p)) < min_sources THEN "insufficient_sources"
    ELSE IF Cardinality(Survivors(p)) < min_sources THEN "too_many_outliers"
    ELSE IF DriftArmed(p) /\ DriftTimes200(p) > DriftLimitTimes200(p)
    THEN "drift_too_large"
    ELSE "none"

(***************************************************************************)
(* C13: aggregate classifies every input in a fixed order:                 *)
(* insufficient_sources (with available = number of valid prices) iff      *)
(* fewer than min_sources prices are not None and positive; otherwise      *)
(* too_many_outliers iff fewer than min_sources prices survive the outlier *)
(* filter; otherwise drift_too_large iff the drift guard is armed and      *)
(* exceeded; otherwise success.  Exactly min_sources survivors is accepted.*)
(***************************************************************************)
C13_ClassificationOrder ==
    agg_result[AggPair] # None =>
        /\ error(agg_result[AggPair][1]) = ExpectedError(AggPair)
        /\ error(agg_result[AggPair][1]) = "insufficient_sources" =>
               agg_result[AggPair][1].metadata.available =
                   Cardinality(ValidInput(AggPair))

\* three valid prices of which exactly min_sources survive: accepted
C13_Witness ==
    /\ agg_result[AggPair] # None
    /\ success(agg_result[AggPair][1])
    /\ Cardinality(ValidInput(AggPair)) = 3
    /\ Cardinality(Survivors(AggPair)) = min_sources
    /\ DriftArmed(AggPair)

(***************************************************************************)
(* C14: the drift guard rejects with drift_too_large if and only if a      *)
(* previous price and a drift limit are both set and                       *)
(* |final - previous| / previous * 100 is strictly greater than the limit; *)
(* a drift equal to the limit is accepted, and the guard is skipped when   *)
(* previous is None or the limit is disabled.                              *)
(***************************************************************************)
C14_DriftGuard ==
    (/\ agg_result[AggPair] # None
     /\ error(agg_result[AggPair][1]) \in {"none", "drift_too_large"}) =>
        LET r == agg_result[AggPair][1]
        IN  /\ error(r) = "drift_too_large" <=>
                   (/\ last_good_median[AggPair] # None
                    /\ drift_limit # None
                    /\ DriftTimes200(AggPair) > DriftLimitTimes200(AggPair))
            /\ error(r) = "drift_too_large" =>
                   /\ r.metadata.previous_price = last_good_median[AggPair][1]
                   /\ 2 * r.metadata.candidate_price =
                          TwiceMedian(AggPair, Survivors(AggPair))
            /\ success(r) => 2 * r.price[1] = TwiceMedian(AggPair, Survivors(AggPair))

\* the guard is armed and the drift is exactly the limit: accepted
C14_Witness ==
    /\ agg_result[AggPair] # None
    /\ success(agg_result[AggPair][1])
    /\ DriftArmed(AggPair)
    /\ agg_result[AggPair][1].price[1] # last_good_median[AggPair][1]
    /\ DriftTimes200(AggPair) = DriftLimitTimes200(AggPair)

(***************************************************************************)
(* PairObserver                                                            *)
(***************************************************************************)
\* seconds between submissions: the smallest the orchestrator accepts
submit_period == 6

\* float(latest_round_data[1]) / (10 ** decimals), when the answer is positive
seed_last_good_median(round_data, dec) ==
    IF round_data[2] > 0
    THEN Some((round_data[2] * PriceUnit) \div Pow(10, dec))
    ELSE None

\* int(median_price * (10 ** decimals)), for a positive median
price_scaled(median_price, dec) == (median_price * Pow(10, dec)) \div PriceUnit

\* a plausible slip: the results of a tick are not recorded
update_health_none(st, keys, d, srcs, t) == st

\* a plausible slip: entries of sources the pair does not list are recorded too
RECURSIVE update_health_all(_, _, _, _, _)
update_health_all(st, keys, d, srcs, t) ==
    IF keys = <<>> THEN st
    ELSE LET source == Head(keys)
             st1 == IF d[source] = None THEN record_failure(st, source, t)
                    ELSE record_success(st, source)
         IN  update_health_all(st1, Tail(keys), d, srcs, t)

\* a plausible slip: a price that is not positive is recorded as a failure
RECURSIVE update_health_positive_only(_, _, _, _, _)
update_health_positive_only(st, keys, d, srcs, t) ==
    IF keys = <<>> THEN st
    ELSE LET source == Head(keys)
             st1 == IF source \notin {srcs[i] : i \in DOMAIN srcs} THEN st
                    ELSE IF ~is_valid_price(d[source]) THEN record_failure(st, source, t)
                    ELSE record_success(st, source)
         IN  update_health_positive_only(st1, Tail(keys), d, srcs, t)

\* the health updates of one result dict, key by key: keys that are not
\* sources of the pair are skipped, None records a failure, a price a success
RECURSIVE update_health(_, _, _, _, _)
update_health(st, keys, d, srcs, t) ==
    IF keys = <<>> THEN st
    ELSE LET source == Head(keys)
             st1 == IF source \notin {srcs[i] : i \in DOMAIN srcs} THEN st
                    ELSE IF d[source] = None THEN record_failure(st, source, t)
                    ELSE record_success(st, source)
         IN  update_health(st1, Tail(keys), d, srcs, t)

\* valid_prices: the entries of the pair's sources that are not None
valid_prices(d, srcs) ==
    Restrict(d, {k \in DOMAIN d : k \in {srcs[i] : i \in DOMAIN srcs} /\ d[k] # None})

\* tuples (price_scaled, timestamp) compare lexicographically
ObsLeq(x, y) == x[1] < y[1] \/ (x[1] = y[1] /\ x[2] <= y[2])

RECURSIVE InsertObs(_, _)
InsertObs(sorted, x) ==
    IF sorted = <<>> THEN <<x>>
    ELSE IF ObsLeq(x, Head(sorted)) THEN <<x>> \o sorted
    ELSE <<Head(sorted)>> \o InsertObs(Tail(sorted), x)

\* a plausible slip: the buffer is not sorted before the middle is taken
sorted_obs_unsorted(obs) == obs

\* sorted(observations)
RECURSIVE sorted_obs(_)
sorted_obs(obs) ==
    IF obs = <<>> THEN <<>> ELSE InsertObs(sorted_obs(Tail(obs)), Head(obs))

\* a plausible slip: the lower of the two middle observations of an even count
final_price_lower_middle(obs) == sorted_obs(obs)[((Len(obs) - 1) \div 2) + 1][1]

\* sorted_obs[len(observations) // 2][0]
final_price(obs) == sorted_obs(obs)[(Len(obs) \div 2) + 1][1]

\* submitObservation(round_id, final_price, observations[0][1], observations[-1][1])
submitObservation(rid, obs) ==
    [round_id |-> rid, answer |-> final_price(obs),
     startedAt |-> obs[1][2], updatedAt |-> obs[Len(obs)][2]]

\* PairObserver.should_submit
should_submit(p) ==
    Len(observations[p]) > 0 /\ now - last_submit[p] > submit_period

\* UsdtRateCache.set
UsdtRateCache_set(rate, t) ==
    /\ usdt_rate' = Some(rate)
    /\ usdt_timestamp' = t

(***************************************************************************)
(* Pair observers driven by their caller: receive_prices and submit are    *)
(* called in any order while the clock advances.                           *)
(***************************************************************************)
ObsSources == <<"a", "b">>
\* the clock advances past one submit period at a time
ObsTimeStep == submit_period + 1
\* what the aggregator contracts hold at construction: round 7 with answer
\* 100.0 at one decimal for btc/usd, no round yet for usdt/usd
ObsRoundData(p) == IF p = "btc/usd" THEN <<7, 1000>> ELSE <<0, 0>>
\* the result dicts a caller hands to receive_prices; the prices are
\* 100.0, 101.0 and 111.0, and "c" is not a source of the pair
ObsDicts(p) ==
    IF p = "btc/usd"
    THEN {[a |-> Some(400), b |-> Some(400)],
          [a |-> Some(400), b |-> Some(404)],
          [a |-> Some(404), b |-> Some(404)],
          [a |-> Some(400), b |-> Some(444)],
          [a |-> Some(444), b |-> Some(444)],
          [a |-> Some(404), b |-> None, c |-> Some(404)]}
    ELSE {[a |-> Some(400), b |-> Some(400)],
          [a |-> None,      b |-> None]}

\* receive_prices calls made on the observer of p: every result dict has an
\* entry for "a", which records one failure or one success per call
CallsMade(p) == status[p]["a"].total_failures + status[p]["a"].total_successes

\* submit calls on the observer of p that reached the daemon
SubmitsMade(p) == round_id[p] - latest_round_data[p][1]

RECURSIVE SumOver(_, _)
SumOver(S, f) ==
    IF S = {} THEN 0
    ELSE LET x == CHOOSE y \in S : TRUE IN f[x] + SumOver(S \ {x}, f)

InitObserver ==
    /\ now = 0
    /\ sources = [p \in Pairs |-> ObsSources]
    /\ status = [p \in Pairs |-> NewStatus(ObsSources)]
    /\ ret = NoRet
    /\ IdleAgg /\ IdleLoop /\ IdleCache /\ IdleChain /\ IdleCall
    /\ decimals = [p \in Pairs |-> 1]
    /\ latest_round_data = [p \in Pairs |-> ObsRoundData(p)]
    /\ round_id = [p \in Pairs |-> latest_round_data[p][1]]
    /\ last_good_median =
           [p \in Pairs |-> seed_last_good_median(latest_round_data[p], decimals[p])]
    /\ observations = [p \in Pairs |-> <<>>]
    /\ last_submit = [p \in Pairs |-> now]
    /\ tx = [p \in Pairs |-> None]
    /\ submit_result = [p \in Pairs |-> "none"]

\* a plausible slip: a candidate rejected for drift becomes the reference
receive_last_good_median_drift(result, old) ==
    IF success(result) THEN result.price
    ELSE IF error(result) = "drift_too_large"
    THEN Some(result.metadata.candidate_price)
    ELSE old

\* a plausible slip: the price of the result is stored before success is tested
receive_last_good_median_reset(result, old) == result.price

\* receive_prices: a failed aggregation returns before last_good_median is
\* touched, a successful one stores its median
receive_last_good_median(result, old) ==
    IF success(result) THEN result.price ELSE old

\* receive_prices: a failed aggregation returns before the buffer is touched,
\* a successful one appends (price_scaled, int(time.time()))
receive_observations(result, obs, dec, t) ==
    IF success(result)
    THEN Append(obs, <<price_scaled(result.price[1], dec), t>>)
    ELSE obs

\* PairObserver.receive_prices(d)
ObsReceivePrices(p, d) ==
    LET valid  == valid_prices(d, sources[p])
        result == aggregate(Keys(d), valid, last_good_median[p])
    IN  /\ SumOver(Pairs, [q \in Pairs |-> CallsMade(q)]) < MaxCalls
        /\ status' = [status EXCEPT ![p] =
                         update_health(@, Keys(d), d, sources[p], now)]
        /\ agg_result' = [agg_result EXCEPT ![p] = Some(result)]
        /\ last_good_median' = [last_good_median EXCEPT ![p] =
                                   receive_last_good_median(result, @)]
        /\ observations' = [observations EXCEPT ![p] =
                               receive_observations(result, @, decimals[p], now)]
        /\ IF success(result) /\ p = "usdt/usd"
           THEN UsdtRateCache_set(result.price[1], now)
           ELSE UNCHANGED cacheVars
        /\ UNCHANGED <<now, sources, ret, prices, drift_limit, last_submit, round_id, decimals,
                       latest_round_data, tx, submit_result, loopVars, callVars, chainVars>>

\* a plausible slip: the round is counted twice
submit_round_id_twice(rid) == rid + 2

\* a plausible slip: the round is not counted
submit_round_id_kept(rid) == rid

\* submit: self.round_id += 1
submit_round_id(rid) == rid + 1

\* a plausible slip: the buffer is not reset
submit_observations_kept(obs, outcome) == obs

\* submit: self.observations = [] once submit_tx has returned, whatever it
\* returned; an exception of submit_tx leaves submit before that line
submit_observations(obs, outcome) ==
    IF outcome = "raised" THEN obs ELSE <<>>

\* submit: self.last_submit = time.time() once submit_tx has returned
submit_last_submit(last, outcome, t) ==
    IF outcome = "raised" THEN last ELSE t

\* PairObserver.submit(); submit_tx returns an accepted result ("ok"), returns a
\* result that reports the transaction failed ("rejected"), or raises
\* ("raised").  The one clock read of submit follows submit_tx, so now is the
\* time at which submit_tx ended.
ObsSubmit(p, outcome) ==
    /\ IF observations[p] = <<>>
       THEN \* if not self.observations: return False
            /\ outcome = "ok"
            /\ UNCHANGED <<round_id, tx, submit_result, last_submit, observations>>
       ELSE /\ SumOver(Pairs, [q \in Pairs |-> SubmitsMade(q)]) < MaxRounds
            /\ round_id' = [round_id EXCEPT ![p] = submit_round_id(@)]
            /\ tx' = [tx EXCEPT ![p] =
                         Some(submitObservation(round_id'[p], observations[p]))]
            /\ submit_result' = [submit_result EXCEPT ![p] = outcome]
            /\ last_submit' = [last_submit EXCEPT ![p] =
                                  submit_last_submit(@, outcome, now)]
            /\ observations' = [observations EXCEPT ![p] =
                                   submit_observations(@, outcome)]
    /\ UNCHANGED <<now, smVars, aggVars, last_good_median, decimals,
                   latest_round_data, loopVars, cacheVars, chainVars, callVars>>

ObsAdvance ==
    /\ now + ObsTimeStep <= MaxTimeObs
    /\ now' = now + ObsTimeStep
    /\ UNCHANGED <<smVars, aggVars, obsVars, loopVars, cacheVars, chainVars, callVars>>

NextObserver ==
    \/ \E p \in Pairs : \E d \in ObsDicts(p) : ObsReceivePrices(p, d)
    \/ \E p \in Pairs : \E outcome \in {"ok", "rejected", "raised"} :
           ObsSubmit(p, outcome)
    \/ ObsAdvance

SpecObserver == InitObserver /\ [][NextObserver]_vars

\* a step in which submit handed a transaction to submit_tx for pair p
SubmitStep(p) == tx'[p] # tx[p]
\* a step in which receive_prices ran for pair p (every call records a
\* failure or a success for at least one source)
ReceiveStep(p) == status'[p] # status[p]

(***************************************************************************)
(* C3: after a successful submit for a pair, its observations buffer is    *)
(* empty and its round_id is exactly 1 greater than before the call.       *)
(***************************************************************************)
C3_SubmitClearsAndCounts ==
    [][\A p \in Pairs :
          (SubmitStep(p) /\ submit_result'[p] = "ok") =>
              /\ observations'[p] = <<>>
              /\ round_id'[p] = round_id[p] + 1]_vars

C3_Witness ==
    \E p \in Pairs :
        /\ submit_result[p] = "ok"
        /\ tx[p] # None
        /\ observations[p] = <<>>
        /\ round_id[p] = latest_round_data[p][1] + 1

\* v is the element at 0-based index k of the prices of obs sorted ascending
IsPriceAtSortedIndex(v, obs, k) ==
    /\ \E i \in DOMAIN obs : obs[i][1] = v
    /\ Cardinality({i \in DOMAIN obs : obs[i][1] < v}) <= k
    /\ Cardinality({i \in DOMAIN obs : obs[i][1] <= v}) > k

(***************************************************************************)
(* C4: for a non-empty buffer of n observations, submit hands the daemon   *)
(* submitObservation(round_id + 1, P, first_ts, last_ts): P is the price   *)
(* at 0-based index floor(n/2) of the observations sorted by price,        *)
(* first_ts the timestamp of the first-appended observation and last_ts    *)
(* that of the last-appended one.                                          *)
(***************************************************************************)
C4_SubmitPayload ==
    [][\A p \in Pairs :
          SubmitStep(p) =>
              LET obs == observations[p]
                  n   == Len(obs)
                  t   == tx'[p][1]
              IN  /\ n > 0
                  /\ t.round_id = round_id[p] + 1
                  /\ IsPriceAtSortedIndex(t.answer, obs, n \div 2)
                  /\ t.startedAt = obs[1][2]
                  /\ t.updatedAt = obs[n][2]]_vars

\* three observations p1 < p2 < p3 with t1 < t3 were submitted (submit_tx
\* raised, so the buffer is still there to compare): (round_id + 1, p2, t1, t3)
C4_Witness ==
    \E p \in Pairs :
        /\ submit_result[p] = "raised"
        /\ Len(observations[p]) = 3
        /\ observations[p][1][1] < observations[p][2][1]
        /\ observations[p][2][1] < observations[p][3][1]
        /\ observations[p][1][2] < observations[p][3][2]
        /\ tx[p] = Some([round_id |-> latest_round_data[p][1] + 1,
                         answer |-> observations[p][2][1],
                         startedAt |-> observations[p][1][2],
                         updatedAt |-> observations[p][3][2]])

(***************************************************************************)
(* C5: when the aggregation of a tick fails, with whatever error kind,     *)
(* the observations buffer and last_good_median of the pair are left as    *)
(* they were.                                                              *)
(***************************************************************************)
C5_FailedAggregationFrame ==
    [][\A p \in Pairs :
          (ReceiveStep(p) /\ ~success(agg_result'[p][1])) =>
              /\ observations'[p] = observations[p]
              /\ last_good_median'[p] = last_good_median[p]]_vars

\* a drift rejection with an observation buffered and a reference price set
C5_Witness ==
    \E p \in Pairs :
        /\ agg_result[p] # None
        /\ error(agg_result[p][1]) = "drift_too_large"
        /\ observations[p] # <<>>
        /\ last_good_median[p] # None
        /\ last_good_median[p][1] # agg_result[p][1].metadata.candidate_price

(***************************************************************************)
(* C6: observations leave the buffer only by a submission, and a failed    *)
(* submit (the daemon rejects the transaction, or the call raises) leaves  *)
(* every accumulated observation in the buffer.                            *)
(***************************************************************************)
C6_FailedSubmitKeepsObservations ==
    [][\A p \in Pairs :
          /\ Len(observations'[p]) < Len(observations[p]) => SubmitStep(p)
          /\ (SubmitStep(p) /\ submit_result'[p] \in {"rejected", "raised"}) =>
                 observations'[p] = observations[p]]_vars

(***************************************************************************)
(* C8: round_id never decreases, starts from the round id of the on-chain  *)
(* latestRoundData, each submit raises it by exactly 1, and the round ids  *)
(* passed to successive submitObservation calls strictly increase.         *)
(***************************************************************************)
C8_RoundIdMonotonic ==
    /\ [](\A p \in Pairs :
             /\ round_id[p] >= latest_round_data[p][1]
             /\ tx[p] = None => round_id[p] = latest_round_data[p][1])
    /\ [][\A p \in Pairs :
             /\ round_id'[p] >= round_id[p]
             /\ round_id'[p] # round_id[p] => SubmitStep(p)
             /\ SubmitStep(p) =>
                    /\ round_id'[p] = round_id[p] + 1
                    /\ tx'[p][1].round_id = round_id'[p]
                    /\ tx[p] # None => tx'[p][1].round_id > tx[p][1].round_id]_vars

\* two submissions of a pair whose contract already held round 7
C8_Witness ==
    \E p \in Pairs :
        /\ latest_round_data[p][1] > 0
        /\ tx[p] # None
        /\ tx[p][1].round_id = latest_round_data[p][1] + 2
        /\ round_id[p] = latest_round_data[p][1] + 2


(***************************************************************************)
(* C16: once last_good_median of a pair holds a value (seeded from a       *)
(* positive on-chain answer at construction, or set by the first           *)
(* successful aggregation) it is never None again, and it changes only on  *)
(* a successful aggregation, to the median of that aggregation.            *)
(***************************************************************************)
C16_LastGoodMedianStaysSet ==
    /\ [](\A p \in Pairs :
             latest_round_data[p][2] > 0 => last_good_median[p] # None)
    /\ [][\A p \in Pairs :
             /\ last_good_median[p] # None => last_good_median'[p] # None
             /\ last_good_median'[p] # last_good_median[p] =>
                    /\ ReceiveStep(p)
                    /\ success(agg_result'[p][1])
                    /\ last_good_median'[p] = agg_result'[p][1].price]_vars

\* a pair that started without an on-chain answer holds the median of an
\* earlier success while its latest aggregation has failed
C16_Witness ==
    \E p \in Pairs :
        /\ latest_round_data[p][2] = 0
        /\ last_good_median[p] # None
        /\ agg_result[p] # None
        /\ ~success(agg_result[p][1])
        /\ observations[p] # <<>>

(***************************************************************************)
(* receive_prices as one call on a fresh observer: the result dict is      *)
(* drawn at the start and the single step of each pair applies it.         *)
(***************************************************************************)
\* None, 0.0, 100.25, 100.75
RcvPrices == {None, Some(0), Some(401), Some(403)}
\* the result dicts handed to the observers; "c" is not a source of the pair
RcvDicts(p) ==
    IF p = "btc/usd"
    THEN [{"a", "b", "c"} -> RcvPrices]
    ELSE {[a |-> Some(3),   b |-> Some(3)],
          [a |-> Some(400), b |-> None]}
\* decimals() of the two aggregator contracts
RcvDecimals(p) == IF p = "btc/usd" THEN 1 ELSE 0

InitReceive ==
    /\ now = 0
    /\ sources = [p \in Pairs |-> ObsSources]
    /\ status = [p \in Pairs |-> NewStatus(ObsSources)]
    /\ ret = NoRet
    /\ prices \in [Pairs -> UNION {RcvDicts(p) : p \in Pairs}]
    /\ \A p \in Pairs : prices[p] \in RcvDicts(p)
    /\ agg_result = [p \in Pairs |-> None]
    /\ drift_limit = Some(drift_limit_percent)
    /\ IdleLoop /\ IdleCache /\ IdleChain /\ IdleCall
    /\ decimals = [p \in Pairs |-> RcvDecimals(p)]
    /\ latest_round_data = [p \in Pairs |-> ObsRoundData(p)]
    /\ round_id = [p \in Pairs |-> latest_round_data[p][1]]
    /\ last_good_median =
           [p \in Pairs |-> seed_last_good_median(latest_round_data[p], decimals[p])]
    /\ observations = [p \in Pairs |-> <<>>]
    /\ last_submit = [p \in Pairs |-> now]
    /\ tx = [p \in Pairs |-> None]
    /\ submit_result = [p \in Pairs |-> "none"]

\* the one receive_prices call of pair p
Receive(p) ==
    /\ agg_result[p] = None
    /\ ObsReceivePrices(p, prices[p])

NextReceive == \E p \in Pairs : Receive(p)

SpecReceive == InitReceive /\ [][NextReceive]_vars

(***************************************************************************)
(* C15: every observation appended on a successful aggregation has         *)
(* scaled_price = round(median * 10^decimals), rounding to nearest and not *)
(* truncating, so that scaled_price / 10^decimals differs from the median  *)
(* by at most 0.5 * 10^-decimals, and the scaled price is strictly         *)
(* positive.  With the median counted in units of 1/PriceUnit, the         *)
(* distance bound reads 2 * |scaled * PriceUnit - median * 10^decimals|    *)
(* <= PriceUnit.                                                           *)
(***************************************************************************)
C15_ScaledPriceIsRounded ==
    \A p \in Pairs :
        (agg_result[p] # None /\ success(agg_result[p][1])) =>
            /\ Len(observations[p]) = 1
            /\ 2 * Abs(observations[p][1][1] * PriceUnit
                       - agg_result[p][1].price[1] * Pow(10, decimals[p]))
                   <= PriceUnit
            /\ observations[p][1][1] > 0

\* a receive_prices step of pair p
ReceiveCall(p) == agg_result[p] = None /\ agg_result'[p] # None

\* the entries of the result dict that belong to sources of the pair
Supporting(p) == DOMAIN prices[p] \cap SeqToSet(sources[p])

(***************************************************************************)
(* C20: when a pair observer receives a result map it records exactly one  *)
(* failure for every supporting source whose entry is None and exactly one *)
(* success for every supporting source whose entry is a positive price,    *)
(* which is passed to aggregation; entries of sources that are not in the  *)
(* pair's list change no health state and are not aggregated.              *)
(***************************************************************************)
C20_ReceiveRecordsHealth ==
    [][\A p \in Pairs :
          ReceiveCall(p) =>
              LET d == prices[p]
                  positive == {s \in Supporting(p) : d[s] # None /\ d[s][1] > 0}
                  r == agg_result'[p][1]
              IN  /\ \A s \in Supporting(p) :
                         /\ d[s] = None =>
                                /\ status'[p][s].total_failures =
                                       status[p][s].total_failures + 1
                                /\ status'[p][s].consecutive_failures =
                                       status[p][s].consecutive_failures + 1
                                /\ status'[p][s].total_successes =
                                       status[p][s].total_successes
                         /\ s \in positive =>
                                /\ status'[p][s].total_successes =
                                       status[p][s].total_successes + 1
                                /\ status'[p][s].total_failures =
                                       status[p][s].total_failures
                  /\ DOMAIN status'[p] = DOMAIN status[p]
                  /\ \A s \in DOMAIN status[p] \ Supporting(p) :
                         status'[p][s] = status[p][s]
                  /\ \A q \in Pairs \ {p} : status'[q] = status[q]
                  /\ r = aggregate(Keys(d),
                                   Restrict(d, {s \in Supporting(p) : d[s] # None}),
                                   last_good_median[p])
                  /\ success(r) =>
                         {r.metadata.sources[i] : i \in DOMAIN r.metadata.sources}
                             \cup DOMAIN r.metadata.dropped = positive
                  /\ error(r) = "insufficient_sources" =>
                         r.metadata.available = Cardinality(positive)]_vars

\* a failed source, a priced one and a priced entry of a source the pair
\* does not list: one failure, one success, and one price aggregated
C20_Witness ==
    \E p \in Pairs :
        /\ agg_result[p] # None
        /\ DOMAIN prices[p] = {"a", "b", "c"}
        /\ prices[p]["a"] = None
        /\ prices[p]["b"] # None /\ prices[p]["b"][1] > 0
        /\ prices[p]["c"] # None /\ prices[p]["c"][1] > 0
        /\ "c" \notin SeqToSet(sources[p])
        /\ status[p]["a"].total_failures = 1
        /\ status[p]["b"].total_successes = 1
        /\ "c" \notin DOMAIN status[p]
        /\ error(agg_result[p][1]) = "insufficient_sources"
        /\ agg_result[p][1].metadata.available = 1

(***************************************************************************)
(* PriceOracle: one observation loop task per pair on one event loop.      *)
(* A task stands at "tick" (in asyncio.sleep, or about to start its first  *)
(* iteration), at "gather" (awaiting its fetches), is "crashed" (an        *)
(* exception left the loop) or "cancelled" (run ended).                    *)
(***************************************************************************)
\* seconds between fetches
fetch_period == 4
\* run starts the loops one second apart
StartStagger == 1
LoopSources == <<"a", "b">>
\* a fetch round lasts no time or one second
FetchDurations == {0, 1}
\* submit_tx blocks for no time or one second
SubmitDurations == {0, 1}

\* when run creates the loop of each pair
LoopStart(p) == IF p = "btc/usd" THEN 0 ELSE StartStagger

\* what the sources of a pair may answer in one round: 100.0, 101.0, 111.0,
\* 0.0 or None (no price, a timeout or an exception)
LoopAnswers(p) ==
    IF p = "btc/usd"
    THEN {[a |-> Some(400), b |-> Some(400)],
          [a |-> Some(400), b |-> Some(404)],
          [a |-> None,      b |-> Some(400)],
          [a |-> Some(400), b |-> Some(444)],
          [a |-> Some(444), b |-> Some(444)]}
    ELSE {[a |-> Some(400), b |-> Some(400)],
          [a |-> Some(0),   b |-> None]}

Init ==
    /\ now = 0
    /\ sources = [p \in Pairs |-> LoopSources]
    /\ status = [p \in Pairs |-> NewStatus(LoopSources)]
    /\ ret = NoRet
    /\ IdleAgg /\ IdleCache /\ IdleChain /\ IdleCall
    /\ decimals = [p \in Pairs |-> 1]
    /\ latest_round_data = [p \in Pairs |-> ObsRoundData(p)]
    /\ round_id = [p \in Pairs |-> latest_round_data[p][1]]
    /\ last_good_median =
           [p \in Pairs |-> seed_last_good_median(latest_round_data[p], decimals[p])]
    /\ observations = [p \in Pairs |-> <<>>]
    /\ last_submit = [p \in Pairs |-> LoopStart(p)]
    /\ tx = [p \in Pairs |-> None]
    /\ submit_result = [p \in Pairs |-> "none"]
    /\ pc = [p \in Pairs |-> "tick"]
    /\ wake_at = [p \in Pairs |-> LoopStart(p)]
    /\ active_sources = [p \in Pairs |-> <<>>]

\* the event loop wakes sleeping tasks in the order of their deadlines
EarliestSleeper(p) ==
    \A q \in Pairs : pc[q] = "tick" => wake_at[p] <= wake_at[q]

\* no sleeping task is due before time t
NoneDueBefore(t) ==
    \A q \in Pairs : pc[q] = "tick" => wake_at[q] >= t

\* top of the loop body: the active list is computed and either the task
\* sleeps again (no active source) or the fetches are issued
LoopTick(p) ==
    LET t == Max2(now, wake_at[p])
        active == get_active_sources(sources[p], status[p], t)
    IN  /\ pc[p] = "tick"
        /\ EarliestSleeper(p)
        /\ t <= MaxTimeLoop
        /\ now' = t
        /\ IF active = <<>>
           THEN /\ wake_at' = [wake_at EXCEPT ![p] = t + fetch_period]
                /\ UNCHANGED <<pc, active_sources>>
           ELSE /\ pc' = [pc EXCEPT ![p] = "gather"]
                /\ active_sources' = [active_sources EXCEPT ![p] = active]
                /\ UNCHANGED wake_at
        /\ UNCHANGED <<smVars, aggVars, obsVars, cacheVars, chainVars, callVars>>

\* if time.time() - last_submit > self.submit_period
submit_due(t, last) == t - last > submit_period

\* the tail of the loop body when a submission is due: submit_tx ends as
\* outcome after sdur seconds
LoopSubmit(p, obs1, t, outcome, sdur) ==
    /\ t + sdur <= MaxTimeLoop
    /\ now' = t + sdur
    /\ round_id' = [round_id EXCEPT ![p] = @ + 1]
    /\ tx' = [tx EXCEPT ![p] = Some(submitObservation(round_id[p] + 1, obs1))]
    /\ submit_result' = [submit_result EXCEPT ![p] = outcome]
    /\ IF outcome = "raised"
       THEN \* the exception leaves the loop: the task ends
            /\ observations' = [observations EXCEPT ![p] = obs1]
            /\ pc' = [pc EXCEPT ![p] = "crashed"]
            /\ UNCHANGED <<last_submit, wake_at>>
       ELSE /\ last_submit' = [last_submit EXCEPT ![p] = t + sdur]
            /\ observations' = [observations EXCEPT ![p] = <<>>]
            /\ pc' = [pc EXCEPT ![p] = "tick"]
            /\ wake_at' = [wake_at EXCEPT ![p] = t + sdur + fetch_period]

\* an exception that left _fetch_with_timeout, as gather hands it back
\* (return_exceptions=True)
Raised == <<"exception", "supports_pair">>

\* the loop's reading of the results of gather: an exception is recorded as
\* a failure and gives no price, as None is
gathered(d) == [k \in DOMAIN d |-> IF d[k] = Raised THEN None ELSE d[k]]

\* the gather returns after dur seconds with the results r of the active
\* sources; the rest of the loop body runs up to the next asyncio.sleep
LoopGathered(p, r, dur) ==
    LET t      == now + dur
        d      == gathered(r)
        valid  == Restrict(d, {k \in DOMAIN d : d[k] # None})
        result == aggregate(active_sources[p], valid, last_good_median[p])
        obs1   == Append(observations[p],
                         <<price_scaled(result.price[1], decimals[p]), t>>)
    IN  /\ pc[p] = "gather"
        /\ t <= MaxTimeLoop
        /\ dur > 0 => NoneDueBefore(t)
        /\ status' = [status EXCEPT ![p] =
                         update_health(@, active_sources[p], d, sources[p], t)]
        /\ agg_result' = [agg_result EXCEPT ![p] = Some(result)]
        /\ active_sources' = [active_sources EXCEPT ![p] = <<>>]
        /\ IF ~success(result)
           THEN \* await asyncio.sleep(self.fetch_period); continue
                /\ now' = t
                /\ pc' = [pc EXCEPT ![p] = "tick"]
                /\ wake_at' = [wake_at EXCEPT ![p] = t + fetch_period]
                /\ UNCHANGED <<observations, last_good_median, last_submit,
                               round_id, tx, submit_result>>
           ELSE /\ last_good_median' = [last_good_median EXCEPT ![p] = result.price]
                /\ IF ~submit_due(t, last_submit[p])
                   THEN /\ now' = t
                        /\ observations' = [observations EXCEPT ![p] = obs1]
                        /\ pc' = [pc EXCEPT ![p] = "tick"]
                        /\ wake_at' = [wake_at EXCEPT ![p] = t + fetch_period]
                        /\ UNCHANGED <<last_submit, round_id, tx, submit_result>>
                   ELSE \E outcome \in {"ok", "rejected", "raised"} :
                            \E sdur \in SubmitDurations :
                                LoopSubmit(p, obs1, t, outcome, sdur)
        /\ UNCHANGED <<sources, ret, prices, drift_limit, decimals, latest_round_data,
                       cacheVars, chainVars, callVars>>

\* run: asyncio.gather(*tasks) re-raises the exception of a crashed loop,
\* run ends and asyncio.run cancels the loops that are left
RunFails ==
    /\ \E p \in Pairs : pc[p] = "crashed"
    /\ \E q \in Pairs : pc[q] \in {"tick", "gather"}
    /\ pc' = [q \in Pairs |-> IF pc[q] = "crashed" THEN "crashed" ELSE "cancelled"]
    /\ UNCHANGED <<now, smVars, aggVars, obsVars, wake_at, active_sources, cacheVars, chainVars, callVars>>

\* the answers of the sources that were asked
RoundAnswers(p) ==
    {Restrict(a, SeqToSet(active_sources[p])) : a \in LoopAnswers(p)}

Next ==
    \/ \E p \in Pairs : LoopTick(p)
    \/ \E p \in Pairs : \E d \in RoundAnswers(p) : \E dur \in FetchDurations :
           LoopGathered(p, d, dur)
    \/ RunFails

Spec == Init /\ [][Next]_vars

(***************************************************************************)
(* C1: in every tick of a pair's loop a fetch is issued only for sources   *)
(* whose backoff has expired when the active list is computed; a source    *)
(* with now < backoff_until is never fetched for that pair.                *)
(***************************************************************************)
C1_OnlyActiveFetched ==
    [][\A p \in Pairs :
          (pc[p] = "tick" /\ pc'[p] = "gather") =>
              \A s \in SeqToSet(active_sources'[p]) :
                  /\ s \in SeqToSet(sources[p])
                  /\ now' >= status[p][s].backoff_until]_vars

\* the loop of pair p runs: it sleeps or awaits its fetches
LoopRuns(p) == pc[p] \in {"tick", "gather"}

(***************************************************************************)
(* C18: for every tracked source at all times, backoff_until is at most    *)
(* the time of its most recent failure plus max_backoff; hence, as the     *)
(* clock advances, every source in backoff becomes active again within     *)
(* max_backoff seconds (300) and is queried again, however many            *)
(* consecutive failures it has accumulated.  Stated so that a finite run   *)
(* refutes it: backoff_until never lies more than max_backoff ahead; the   *)
(* loop of a pair that has a source in backoff runs, so that a next pass   *)
(* comes; and every pass that issues fetches queries every source of the   *)
(* pair whose backoff has expired by then.                                 *)
(***************************************************************************)
C18_BackoffEndsInQuery ==
    /\ [](\A p \in Pairs : \A s \in SeqToSet(sources[p]) :
             /\ status[p][s].backoff_until <= now + DEFAULT_MAX_BACKOFF_SECONDS
             /\ now < status[p][s].backoff_until => LoopRuns(p))
    /\ [][\A p \in Pairs :
             (pc[p] = "tick" /\ pc'[p] = "gather") =>
                 \A s \in SeqToSet(sources[p]) :
                     now' >= status[p][s].backoff_until =>
                         s \in SeqToSet(active_sources'[p])]_vars

\* fetches are in flight for a pair while one of its sources is in backoff
C1_Witness ==
    \E p \in Pairs :
        /\ pc[p] = "gather"
        /\ active_sources[p] # <<>>
        /\ \E s \in SeqToSet(sources[p]) :
               /\ s \notin SeqToSet(active_sources[p])
               /\ now < status[p][s].backoff_until

(***************************************************************************)
(* C7: once startup has completed no runtime failure (a fetch error or     *)
(* timeout, an aggregation error, a submit_tx call that fails or raises)   *)
(* ends the observation loop of any pair or the run loop.                  *)
(***************************************************************************)
C7_LoopsNeverEnd ==
    \A p \in Pairs : pc[p] \in {"tick", "gather"}

\* a step in which the loop of pair p processed the results of its fetches
ProcessedStep(p) == pc[p] = "gather" /\ pc'[p] # "gather"

(***************************************************************************)
(* C9: in every tick in which the fetch results of a pair are processed, a *)
(* submission is made exactly when the buffer is non-empty and strictly    *)
(* more than submit_period seconds have passed since last_submit, whether  *)
(* or not the aggregation of that tick succeeded.  The buffer is the one   *)
(* the tick leaves: non-empty when this tick appended or an earlier one    *)
(* did.  The clock is read when the results have been processed: that is   *)
(* the timestamp of the observation just appended when a submission is     *)
(* made, and the time of the next state when none is.                      *)
(***************************************************************************)
C9_SubmitExactlyWhenDue ==
    [][\A p \in Pairs :
          ProcessedStep(p) =>
              IF SubmitStep(p)
              THEN tx'[p][1].updatedAt - last_submit[p] > submit_period
              ELSE ~ /\ (success(agg_result'[p][1]) \/ observations[p] # <<>>)
                     /\ now' - last_submit[p] > submit_period]_vars

\* a step in which the loop of pair p processed its fetch results, the
\* aggregation failed with insufficient_sources and the task went to sleep
InsufficientTick(p) ==
    /\ ProcessedStep(p)
    /\ pc'[p] = "tick"
    /\ error(agg_result'[p][1]) = "insufficient_sources"

\* the calls recorded against source s of pair p
Recorded(st, s) == st[s].total_failures + st[s].total_successes

(***************************************************************************)
(* C25 (amended): a tick whose aggregation fails with insufficient_sources *)
(* appends no observation and leaves observations, last_good_median,       *)
(* round_id and last_submit of the pair as they were; the health records   *)
(* do change: every source that was fetched has one more call recorded,   *)
(* either a failure or a success, and the sources that were not fetched    *)
(* keep their records.                                                     *)
(***************************************************************************)
C25_InsufficientSourcesFrame ==
    [][\A p \in Pairs :
          InsufficientTick(p) =>
              /\ observations'[p] = observations[p]
              /\ last_good_median'[p] = last_good_median[p]
              /\ round_id'[p] = round_id[p]
              /\ last_submit'[p] = last_submit[p]
              /\ \A s \in SeqToSet(active_sources[p]) :
                     Recorded(status'[p], s) = Recorded(status[p], s) + 1
              /\ \A s \in SeqToSet(active_sources[p]) :
                     /\ status'[p][s].total_failures >= status[p][s].total_failures
                     /\ status'[p][s].total_successes >= status[p][s].total_successes
              /\ \A s \in SeqToSet(sources[p]) \ SeqToSet(active_sources[p]) :
                     status'[p][s] = status[p][s]]_vars

\* an insufficient_sources tick has just ended for a pair that has an
\* observation buffered, and a failure stands recorded against a source
C25_Witness ==
    \E p \in Pairs :
        /\ pc[p] = "tick"
        /\ agg_result[p] # None
        /\ error(agg_result[p][1]) = "insufficient_sources"
        /\ observations[p] # <<>>
        /\ last_good_median[p] # None
        /\ \E s \in SeqToSet(sources[p]) : status[p][s].consecutive_failures > 0

(***************************************************************************)
(* C25 as written: in a tick whose aggregation fails with                  *)
(* insufficient_sources no state of the pair changes, the per-source       *)
(* health records included.                                                *)
(***************************************************************************)
C25_NoStateChanged ==
    [][\A p \in Pairs :
          InsufficientTick(p) =>
              /\ observations'[p] = observations[p]
              /\ last_good_median'[p] = last_good_median[p]
              /\ round_id'[p] = round_id[p]
              /\ last_submit'[p] = last_submit[p]
              /\ status'[p] = status[p]]_vars

(***************************************************************************)
(* C26 (amended): when the buffer holds an even number n of observations   *)
(* at submit time, the submitted price is the upper of the two middle      *)
(* prices of the observations sorted by price: the price at 0-based index  *)
(* n/2, which is never below the price at index n/2 - 1.                   *)
(***************************************************************************)
C26_EvenCountUpperMiddle ==
    [][\A p \in Pairs :
          (SubmitStep(p) /\ Len(observations[p]) % 2 = 0) =>
              LET obs == observations[p]
                  n   == Len(obs)
                  P   == tx'[p][1].answer
              IN  \E lo \in {obs[i][1] : i \in DOMAIN obs} :
                      /\ IsPriceAtSortedIndex(lo, obs, (n \div 2) - 1)
                      /\ IsPriceAtSortedIndex(P, obs, n \div 2)
                      /\ P >= lo]_vars

\* two observations with different prices were submitted (submit_tx raised,
\* so the buffer is still there to compare) and the higher price was sent
C26_Witness ==
    \E p \in Pairs :
        /\ submit_result[p] = "raised"
        /\ Len(observations[p]) = 2
        /\ observations[p][1][1] # observations[p][2][1]
        /\ tx[p] # None
        /\ tx[p][1].answer = Max2(observations[p][1][1], observations[p][2][1])

(***************************************************************************)
(* C26 as written: when the buffer holds an even number of observations at *)
(* submit time, the submitted price is the lower of the two middle prices  *)
(* of the observations sorted by price.                                    *)
(***************************************************************************)
C26_EvenCountLowerMiddle ==
    [][\A p \in Pairs :
          (SubmitStep(p) /\ Len(observations[p]) % 2 = 0) =>
              IsPriceAtSortedIndex(tx'[p][1].answer, observations[p],
                                   (Len(observations[p]) \div 2) - 1)]_vars

(***************************************************************************)
(* C28: the stablecoin rate cache is written on every successful           *)
(* aggregation of the usdt/usd pair with that aggregation's median, and by *)
(* nothing else: while the last aggregation of usdt/usd is a successful    *)
(* one the cache holds its median, and the cache holds a rate only once    *)
(* usdt/usd has aggregated.                                                *)
(***************************************************************************)
C28_CacheWrittenByUsdtPair ==
    /\ (/\ agg_result["usdt/usd"] # None
         /\ success(agg_result["usdt/usd"][1])) =>
            usdt_rate = agg_result["usdt/usd"][1].price
    /\ usdt_rate # None => agg_result["usdt/usd"] # None

(***************************************************************************)
(* UsdtRateCache driven directly by its callers: set, get and the passing  *)
(* of time.  The clock moves in steps of about one ttl, so that a rate is  *)
(* read at the ages ttl - 1, ttl and ttl + 1 and at about twice the ttl.   *)
(***************************************************************************)
\* _ttl: ClassVar[float] = 300.0
_ttl == 300
MaxTimeCache == 602

\* a plausible slip: a rate aged exactly ttl counts as stale
cache_stale_inclusive(age) == age >= _ttl

\* time.time() - cls._timestamp > cls._ttl
cache_stale(age) == age > _ttl

\* UsdtRateCache.get() called at time t
UsdtRateCache_get(t) ==
    IF usdt_rate = None THEN None
    ELSE IF cache_stale(t - usdt_timestamp) THEN None
    ELSE usdt_rate

\* the rates handed to set: 0.99 and 1.0
CacheRates == {396, 400}
CacheTimeSteps == {_ttl - 1, _ttl, _ttl + 1}

\* no SourceManager is involved
IdleSM ==
    /\ sources = [p \in Pairs |-> <<>>]
    /\ status = [p \in Pairs |-> NewStatus(<<>>)]
    /\ ret = NoRet

InitCache ==
    /\ now = 0
    /\ IdleSM /\ IdleAgg /\ IdleObs /\ IdleLoop /\ IdleCache /\ IdleChain
    /\ fetchers = <<>>
    /\ args = <<"none">>
    /\ returned = None

CacheSet(rate) ==
    /\ UsdtRateCache_set(rate, now)
    /\ args' = <<"set", rate>>
    /\ returned' = None
    /\ UNCHANGED <<now, smVars, aggVars, obsVars, loopVars, fetchers, chainVars>>

CacheGet ==
    /\ args' = <<"get">>
    /\ returned' = Some([value |-> UsdtRateCache_get(now), time |-> now])
    /\ UNCHANGED <<now, smVars, aggVars, obsVars, loopVars, cacheVars, chainVars, fetchers>>

CacheAdvance(d) ==
    /\ now + d <= MaxTimeCache
    /\ now' = now + d
    /\ UNCHANGED <<smVars, aggVars, obsVars, loopVars, cacheVars, chainVars, callVars>>

NextCache ==
    \/ \E rate \in CacheRates : CacheSet(rate)
    \/ CacheGet
    \/ \E d \in CacheTimeSteps : CacheAdvance(d)

SpecCache == InitCache /\ [][NextCache]_vars

\* a step in which set(rate) ran, and one in which get() ran
CacheSetStep == args'[1] = "set" /\ now' = now
CacheGetStep == args'[1] = "get" /\ now' = now

(***************************************************************************)
(* C27: set stores the rate with the time of the call; get returns None    *)
(* if no rate was ever set or if more than ttl (300) seconds have passed   *)
(* since the last set, and otherwise the rate set last: a rate aged        *)
(* exactly ttl is still returned.                                          *)
(***************************************************************************)
C27_GetFreshOrNone ==
    [][/\ CacheSetStep =>
             /\ usdt_rate' = Some(args'[2])
             /\ usdt_timestamp' = now
       /\ CacheGetStep =>
             /\ returned' # None
             /\ returned'[1].value =
                    IF usdt_rate = None THEN None
                    ELSE IF now - usdt_timestamp <= 300 THEN usdt_rate
                    ELSE None
             /\ UNCHANGED cacheVars]_vars

\* a rate was read exactly ttl seconds after it was set, and was returned
C27_Witness ==
    /\ args = <<"get">>
    /\ returned # None
    /\ returned[1].time - usdt_timestamp = 300
    /\ usdt_rate # None
    /\ returned[1].value = usdt_rate

(***************************************************************************)
(* BinanceFetcher: fetch and fetch_batch with the USDT depeg guard.        *)
(*                                                                         *)
(* The guard compares Python floats, so the rate is kept as the double it  *)
(* is: a double d close to h hundredths is the pair <<h, r>> with          *)
(* d = h/100 + r/(100 * 2^58), r being the rounding residual of the        *)
(* decimal literal.  Differences of such doubles near 1.0 are exact, and   *)
(* two of them compare by h first and by r next.  A price is counted in    *)
(* units of 1/PriceUnit, a converted price in units of 1/(100 * PriceUnit).*)
(***************************************************************************)
\* the USDTUSD rates the endpoint may answer: 0.97, 0.98, ..., 1.03
DepegRates == 97..103

\* float(item["price"]): the double nearest to h/100, as <<h, residual>>
float_of_hundredths(h) ==
    <<h, CASE h = 97  -> -768
           [] h = 98  -> -512
           [] h = 99  -> -256
           [] h = 100 -> 0
           [] h = 101 -> 256
           [] h = 102 -> 512
           [] h = 103 -> 768>>

\* USDT_DEPEG_THRESHOLD = 0.02, the double nearest to 2/100
USDT_DEPEG_THRESHOLD == <<2, 12>>

\* x - y of two doubles (exact here), abs(x), x > y
DoubleMinus(x, y) == <<x[1] - y[1], x[2] - y[2]>>
DoubleAbs(x) ==
    IF x[1] < 0 \/ (x[1] = 0 /\ x[2] < 0) THEN <<0 - x[1], 0 - x[2]>> ELSE x
DoubleGreater(x, y) == x[1] > y[1] \/ (x[1] = y[1] /\ x[2] > y[2])

\* _is_depeg: abs(rate - 1.0) > self.USDT_DEPEG_THRESHOLD
is_depeg(rate) ==
    DoubleGreater(DoubleAbs(DoubleMinus(rate, float_of_hundredths(100))),
                  USDT_DEPEG_THRESHOLD)

\* the pairs asked of Binance, and the symbols its ticker lists: btc is
\* quoted in USD, rose in USDT only, and eth/eur is not listed
BinancePairs == {"btc/usd", "rose/usd", "eth/eur"}
BinanceSymbols == {"BTCUSD", "ROSEUSDT", "USDTUSD"}

\* f"{base_u}USD", f"{base_u}USDT" and f"{base_u}{quote_u}"
BinanceSymbolNames(p) ==
    CASE p = "btc/usd"  -> [quote |-> "USD", direct |-> "BTCUSD",  usdt |-> "BTCUSDT"]
      [] p = "rose/usd" -> [quote |-> "USD", direct |-> "ROSEUSD", usdt |-> "ROSEUSDT"]
      [] p = "eth/eur"  -> [quote |-> "EUR", direct |-> "ETHEUR",  usdt |-> "ETHUSDT"]

\* prices.get(symbol) of what _fetch_symbols returns: None for a symbol
\* the ticker has no price for
ticker_get(t, symbol) == IF symbol \in DOMAIN t THEN t[symbol] ELSE None

\* what the ticker endpoint answers: a price, a rate, or nothing for a symbol
BinanceTickers ==
    {t \in [BinanceSymbols -> {None, Some(400)} \cup {Some(h) : h \in DepegRates}] :
        /\ t["BTCUSD"] \in {None, Some(400)}
        /\ t["ROSEUSDT"] \in {None, Some(400)}
        /\ t["USDTUSD"] \in {None} \cup {Some(h) : h \in DepegRates}}

\* the asyncio tasks that call the adapter, and a task that is in no call
BinanceTasks == {"A", "B"}
NoCall == <<"none">>

\* supports_pair after its request was answered with the dict answer: the value
\* returned and the new _pair_info, (symbol_to_fetch, needs_usdt_conversion)
\* by pair; the entry is written without looking at _pair_info again
Binance_supports_pair(f, p, answer) ==
    LET n == BinanceSymbolNames(p)
        with(info) == [q \in DOMAIN f._pair_info \cup {p} |->
                          IF q = p THEN info ELSE f._pair_info[q]]
    IN  IF ticker_get(answer, n.direct) # None
        THEN [result |-> TRUE, _pair_info |-> with(<<n.direct, FALSE>>)]
        ELSE IF /\ n.quote = "USD"
                /\ ticker_get(answer, n.usdt) # None
                /\ ticker_get(answer, "USDTUSD") # None
        THEN [result |-> TRUE, _pair_info |-> with(<<n.usdt, TRUE>>)]
        ELSE [result |-> FALSE, _pair_info |-> f._pair_info]

\* a direct price and usdt_price * usdt_rate, in units of 1/(100 * PriceUnit)
BinanceDirect(price) == Some(price * 100)
BinanceConverted(usdt_price, h) == Some(usdt_price * h)

\* fetch after its request was answered with the dict answer; info is the entry of
\* _pair_info that was read before the request
Binance_fetch(info, answer) ==
    LET symbol == info[1]
        needs_conversion == info[2]
        usdt_price == ticker_get(answer, symbol)
        usdt_rate_ == ticker_get(answer, "USDTUSD")
    IN  IF ~needs_conversion
        THEN IF usdt_price = None THEN None ELSE BinanceDirect(usdt_price[1])
        ELSE IF usdt_price = None \/ usdt_rate_ = None THEN None
        ELSE IF is_depeg(float_of_hundredths(usdt_rate_[1])) THEN None
        ELSE BinanceConverted(usdt_price[1], usdt_rate_[1])

\* fetch_batch before its request: the entries of _pair_info of the pairs
\* asked; the other pairs are marked None
Binance_batch_info(f, pairs) ==
    Restrict(f._pair_info, SeqToSet(pairs) \cap DOMAIN f._pair_info)

\* fetch_batch after its request was answered with the dict answer: a dict with one
\* entry per pair of the list; info is what was read before the request and
\* the symbols are looked up in _pair_info again
Binance_fetch_batch(f, pairs, info, answer) ==
    LET asked == SeqToSet(pairs)
        needs_usdt_conversion == {p \in DOMAIN info : info[p][2]}
        symbols == {info[p][1] : p \in DOMAIN info}
                       \cup (IF needs_usdt_conversion # {} THEN {"USDTUSD"} ELSE {})
        price_map(symbol) == IF symbol \in symbols THEN ticker_get(answer, symbol)
                             ELSE None
        rate0 == price_map("USDTUSD")
        usdt_rate_ == IF rate0 # None /\ is_depeg(float_of_hundredths(rate0[1]))
                      THEN None ELSE rate0
    IN  [p \in asked |->
            IF p \notin DOMAIN info THEN None
            ELSE IF p \notin DOMAIN f._pair_info THEN None
            ELSE LET price == price_map(f._pair_info[p][1])
                 IN  IF price = None THEN None
                     ELSE IF p \in needs_usdt_conversion
                          THEN IF usdt_rate_ = None THEN None
                               ELSE BinanceConverted(price[1], usdt_rate_[1])
                          ELSE BinanceDirect(price[1])]

BinanceBatches == {<<"btc/usd", "rose/usd">>, <<"rose/usd", "eth/eur">>}

\* _pair_info is empty until supports_pair is awaited; no task is in a call
InitBinance ==
    /\ now = 0
    /\ IdleSM /\ IdleAgg /\ IdleObs /\ IdleLoop /\ IdleCache /\ IdleChain
    /\ \E t \in BinanceTickers :
           fetchers = [binance |-> [_pair_info |-> <<>>, ticker |-> t]]
    /\ args = [k \in BinanceTasks |-> NoCall]
    /\ returned = None

BinanceFrame == UNCHANGED <<now, smVars, aggVars, obsVars, loopVars, cacheVars, chainVars>>

\* task k awaits supports_pair(base, quote): True at once for a pair in
\* _pair_info, otherwise the request is sent
BinanceSupportsPair(k, p) ==
    /\ args[k] = NoCall
    /\ IF p \in DOMAIN fetchers.binance._pair_info
       THEN returned' = Some(TRUE) /\ UNCHANGED args
       ELSE args' = [args EXCEPT ![k] = <<"supports_pair", p>>] /\ UNCHANGED returned
    /\ UNCHANGED fetchers /\ BinanceFrame

\* the request of supports_pair is answered with the prices of the moment
BinanceSupportsPairReturns(k) ==
    /\ args[k][1] = "supports_pair"
    /\ LET r == Binance_supports_pair(fetchers.binance, args[k][2],
                                      fetchers.binance.ticker)
       IN  /\ returned' = Some(r.result)
           /\ fetchers' = [fetchers EXCEPT !.binance._pair_info = r._pair_info]
    /\ args' = [args EXCEPT ![k] = NoCall]
    /\ BinanceFrame

\* between two answers the exchange quotes other prices
BinanceTickerMoves(t) ==
    /\ t # fetchers.binance.ticker
    /\ fetchers' = [fetchers EXCEPT !.binance.ticker = t]
    /\ UNCHANGED <<args, returned>> /\ BinanceFrame

\* task k awaits fetch(base, quote): None at once for a pair that is not
\* in _pair_info, otherwise the request is sent
BinanceFetch(k, p) ==
    /\ args[k] = NoCall
    /\ IF p \notin DOMAIN fetchers.binance._pair_info
       THEN returned' = Some(None) /\ UNCHANGED args
       ELSE /\ args' = [args EXCEPT ![k] = <<"fetch", p, fetchers.binance._pair_info[p]>>]
            /\ UNCHANGED returned
    /\ UNCHANGED fetchers /\ BinanceFrame

BinanceFetchReturns(k) ==
    /\ args[k][1] = "fetch"
    /\ returned' = Some(Binance_fetch(args[k][3], fetchers.binance.ticker))
    /\ args' = [args EXCEPT ![k] = NoCall]
    /\ UNCHANGED fetchers /\ BinanceFrame

\* task k awaits fetch_batch(pairs): every pair None at once when none of
\* them is in _pair_info, otherwise the request is sent
BinanceFetchBatch(k, pairs) ==
    LET info == Binance_batch_info(fetchers.binance, pairs)
    IN  /\ args[k] = NoCall
        /\ IF DOMAIN info = {}
           THEN returned' = Some([p \in SeqToSet(pairs) |-> None]) /\ UNCHANGED args
           ELSE /\ args' = [args EXCEPT ![k] = <<"fetch_batch", pairs, info>>]
                /\ UNCHANGED returned
        /\ UNCHANGED fetchers /\ BinanceFrame

BinanceFetchBatchReturns(k) ==
    /\ args[k][1] = "fetch_batch"
    /\ returned' = Some(Binance_fetch_batch(fetchers.binance, args[k][2], args[k][3],
                                            fetchers.binance.ticker))
    /\ args' = [args EXCEPT ![k] = NoCall]
    /\ UNCHANGED fetchers /\ BinanceFrame

NextBinance ==
    \/ \E k \in BinanceTasks, p \in BinancePairs : BinanceSupportsPair(k, p)
    \/ \E k \in BinanceTasks : BinanceSupportsPairReturns(k)
    \/ \E t \in BinanceTickers : BinanceTickerMoves(t)
    \/ \E k \in BinanceTasks, p \in BinancePairs : BinanceFetch(k, p)
    \/ \E k \in BinanceTasks : BinanceFetchReturns(k)
    \/ \E k \in BinanceTasks, pairs \in BinanceBatches : BinanceFetchBatch(k, pairs)
    \/ \E k \in BinanceTasks : BinanceFetchBatchReturns(k)

SpecBinance == InitBinance /\ [][NextBinance]_vars

\* task k returns from a fetch or a fetch_batch that asked for pair p, which
\* was in _pair_info when the call began
BinanceAsked(k, p) ==
    /\ args'[k] = NoCall
    /\ \/ args[k][1] = "fetch" /\ args[k][2] = p
       \/ args[k][1] = "fetch_batch" /\ p \in DOMAIN args[k][3]
\* the sample that call gave for pair p
BinanceSample(k, p) ==
    IF args[k][1] = "fetch" THEN returned'[1] ELSE returned'[1][p]

(***************************************************************************)
(* C29: when the USDT->USD factor deviates from 1 by strictly more than    *)
(* 2 %, every sample that needs USDT conversion in the same fetch or batch *)
(* is None while the directly quoted pairs are unaffected; a factor that   *)
(* deviates by exactly 2 % or less is used to convert.  The prices are     *)
(* those the request of the call was answered with.                        *)
(***************************************************************************)
C29_DepegGuard ==
    [][\A k \in BinanceTasks :
          LET t == fetchers.binance.ticker
          IN  /\ BinanceAsked(k, "btc/usd") =>
                     BinanceSample(k, "btc/usd") =
                         IF t["BTCUSD"] = None THEN None ELSE Some(t["BTCUSD"][1] * 100)
              /\ (/\ BinanceAsked(k, "rose/usd")
                  /\ t["ROSEUSDT"] # None
                  /\ t["USDTUSD"] # None) =>
                     BinanceSample(k, "rose/usd") =
                         IF Abs(t["USDTUSD"][1] - 100) > 2 THEN None
                         ELSE Some(t["ROSEUSDT"][1] * t["USDTUSD"][1])]_vars

(***************************************************************************)
(* Startup of the orchestrator: PriceOracle.__init__ builds the adapters   *)
(* and the supporting-source list of every pair, run starts the loops.     *)
(*                                                                         *)
(* An adapter is what its supports_pair would answer for each pair         *)
(* ("True", "False", or "raises") and whether supports_pair is a coroutine *)
(* function (async def, as in BaseFetcher and most adapters) or a plain    *)
(* method (as in BitstampFetcher).  __init__ and _fetch_with_timeout call  *)
(* supports_pair without awaiting it.                                      *)
(***************************************************************************)
\* fetcher.supports_pair(base, quote), not awaited: a coroutine function
\* returns a coroutine object without running its body
supports_pair(f, p) == IF f.is_coroutine THEN "coroutine" ELSE f.supports[p]

\* bool(v): a coroutine object is true
truthy(v) == v \in {"True", "coroutine"}

\* __init__: supported, the sources of self.sources whose call is true; a
\* call that raises is caught and the source is left out
pair_supported(configured, fs, p) ==
    SelectSeq(configured, LAMBDA source : truthy(supports_pair(fs[source], p)))

\* __init__: if not supported: raise ValueError
init_raises(configured, fs) ==
    \E p \in Pairs : pair_supported(configured, fs, p) = <<>>

\* self.sources as configured
StartupConfigured == {<<"a", "b">>, <<"b", "a">>, <<"a">>}
StartupAdapters ==
    [is_coroutine : BOOLEAN, supports : [Pairs -> {"True", "False", "raises"}]]

\* _fetch_with_timeout(source, base, quote): the call of supports_pair is
\* made before the try, so what it raises leaves _fetch_with_timeout; None
\* when the call is false; an adapter asked for a pair it does not serve
\* has no price to give; one that serves the pair gives 100.0 or fails
fetch_with_timeout(f, p) ==
    IF supports_pair(f, p) = "raises" THEN {Raised}
    ELSE IF ~truthy(supports_pair(f, p)) THEN {None}
    ELSE IF f.supports[p] = "True" THEN {Some(400), None}
    ELSE {None}

\* the results of the fetches of one tick
StartupAnswers(p) ==
    {d \in [SeqToSet(active_sources[p]) -> {None, Some(400), Raised}] :
        \A source \in DOMAIN d : d[source] \in fetch_with_timeout(fetchers[source], p)}

InitStartup ==
    /\ now = 0
    /\ IdleSM /\ IdleAgg /\ IdleCache /\ IdleChain
    /\ \E configured \in StartupConfigured :
           /\ args = [sources |-> configured]
           /\ fetchers \in [SeqToSet(configured) -> StartupAdapters]
    /\ returned = None
    /\ decimals = [p \in Pairs |-> 1]
    /\ latest_round_data = [p \in Pairs |-> ObsRoundData(p)]
    /\ round_id = [p \in Pairs |-> latest_round_data[p][1]]
    /\ last_good_median =
           [p \in Pairs |-> seed_last_good_median(latest_round_data[p], decimals[p])]
    /\ observations = [p \in Pairs |-> <<>>]
    /\ last_submit = [p \in Pairs |-> LoopStart(p)]
    /\ tx = [p \in Pairs |-> None]
    /\ submit_result = [p \in Pairs |-> "none"]
    /\ pc = [p \in Pairs |-> "idle"]
    /\ wake_at = [p \in Pairs |-> LoopStart(p)]
    /\ active_sources = [p \in Pairs |-> <<>>]

\* PriceOracle(...) followed by run(): either __init__ raises ValueError and
\* nothing is started, or every pair gets its list and its loop
Construct ==
    /\ returned = None
    /\ IF init_raises(args.sources, fetchers)
       THEN /\ returned' = Some("ValueError")
            /\ UNCHANGED <<sources, status, pc>>
       ELSE /\ returned' = Some("constructed")
            /\ sources' = [p \in Pairs |-> pair_supported(args.sources, fetchers, p)]
            /\ status' = [p \in Pairs |-> NewStatus(sources'[p])]
            /\ pc' = [p \in Pairs |-> "tick"]
    /\ UNCHANGED <<now, ret, aggVars, obsVars, wake_at, active_sources, cacheVars, chainVars,
                   fetchers, args>>

NextStartup ==
    \/ Construct
    \/ \E p \in Pairs : LoopTick(p)
    \/ \E p \in Pairs : \E d \in StartupAnswers(p) : LoopGathered(p, d, 0)
    \/ RunFails

SpecStartup == InitStartup /\ [][NextStartup]_vars

\* adapter source reports that it supports pair p
ReportsSupport(source, p) == fetchers[source].supports[p] = "True"

(***************************************************************************)
(* C21: a source whose adapter reports that it does not support a pair is  *)
(* never in that pair's source list, is never fetched for that pair and    *)
(* never has a failure or a backoff recorded against it for that pair.     *)
(***************************************************************************)
C21_UnsupportedNeverUsed ==
    \A p \in Pairs : \A source \in DOMAIN fetchers :
        ~ReportsSupport(source, p) =>
            /\ source \notin SeqToSet(sources[p])
            /\ source \notin SeqToSet(active_sources[p])
            /\ source \in DOMAIN status[p] =>
                   /\ status[p][source].total_failures = 0
                   /\ status[p][source].backoff_until = 0

(***************************************************************************)
(* C30: at startup the supporting-source list of every pair holds, in      *)
(* configured order, exactly the configured adapters whose supports_pair   *)
(* is true, an adapter whose supports_pair raises counting as unsupported; *)
(* if the list of some pair is empty, initialization aborts with a         *)
(* configuration error and no observation loop starts.                     *)
(***************************************************************************)
C30_StartupSourceLists ==
    LET expected(p) == SelectSeq(args.sources, LAMBDA source : ReportsSupport(source, p))
    IN  returned # None =>
            IF \E p \in Pairs : expected(p) = <<>>
            THEN /\ returned = Some("ValueError")
                 /\ \A p \in Pairs : pc[p] = "idle"
            ELSE /\ returned = Some("constructed")
                 /\ \A p \in Pairs : sources[p] = expected(p)

(***************************************************************************)
(* BatchFetchCoordinator.fetch_all as a function of its arguments and of   *)
(* what the adapters do.  An adapter has, besides supports_pair, the flag  *)
(* supports_batch, how its fetch_batch ends (it returns a dict, raises,    *)
(* runs into the timeout, or is cancelled), which fetch_batch it has (the  *)
(* one inherited from BaseFetcher, or its own, whose dict has the keys of  *)
(* the workload, those of every pair, or none), how each single fetch      *)
(* ends, and the price it has for each pair.                               *)
(***************************************************************************)
\* the pair's key is looked up in active_sources with the default [source]
active_list(active, source, pair) ==
    IF pair \in DOMAIN active THEN active[pair] ELSE <<source>>

\* the condition of the comprehension that builds supported_pairs
scheduled(fs, source, pair, active) ==
    /\ truthy(supports_pair(fs[source], pair))
    /\ \/ active = None
       \/ source \in SeqToSet(active_list(active[1], source, pair))

\* supported_pairs of one source: its workload
supported_pairs(fs, source, pairs, active) ==
    SelectSeq(pairs, LAMBDA pair : scheduled(fs, source, pair, active))

\* source_pairs: the sources with a workload that is not empty
source_pairs(fs, pairs, active) ==
    [source \in {x \in DOMAIN fs : supported_pairs(fs, x, pairs, active) # <<>>} |->
        supported_pairs(fs, source, pairs, active)]

\* _fetch_single: the price, or None on a timeout or an exception
fetch_single(f, pair) ==
    IF f.fetch[pair] = "returns" THEN f.answer[pair] ELSE None

\* BaseFetcher.fetch_batch(pairs) raises: awaiting what a plain
\* supports_pair returned is a TypeError, a supports_pair that raises and a
\* fetch that raises leave it
BaseFetcher_fetch_batch_raises(f, workload) ==
    \E i \in DOMAIN workload :
        \/ ~f.is_coroutine
        \/ f.supports[workload[i]] = "raises"
        \/ f.supports[workload[i]] = "True" /\ f.fetch[workload[i]] = "raises"

\* BaseFetcher.fetch_batch(pairs) when it returns: supports_pair is awaited
\* for each pair, the pair is fetched when it answers True and is None
\* when it answers False
BaseFetcher_fetch_batch(f, workload) ==
    [pair \in SeqToSet(workload) |->
        IF f.supports[pair] = "True" THEN f.answer[pair] ELSE None]

\* fetcher.fetch_batch(pairs) raises, runs into the timeout or is cancelled
fetch_batch_fails(f, workload) ==
    \/ f.batch \in {"raises", "timeout", "cancelled"}
    \/ f.keys = "inherited" /\
           \/ BaseFetcher_fetch_batch_raises(f, workload)
           \/ \E i \in DOMAIN workload :
                  f.supports[workload[i]] = "True" /\ f.fetch[workload[i]] = "timeout"

\* the dict fetcher.fetch_batch(pairs) returns when it returns
fetch_batch_returns(f, workload) ==
    CASE f.keys = "inherited" -> BaseFetcher_fetch_batch(f, workload)
      [] f.keys = "workload"  -> [pair \in SeqToSet(workload) |-> f.answer[pair]]
      [] f.keys = "all"       -> [pair \in Pairs |-> f.answer[pair]]
      [] f.keys = "none"      -> <<>>

\* a plausible slip: a failed task contributes no entry
fetch_source_batch_drops(f, workload) ==
    IF f.supports_batch
    THEN IF fetch_batch_fails(f, workload) THEN <<>>
         ELSE fetch_batch_returns(f, workload)
    ELSE [pair \in {q \in SeqToSet(workload) : f.fetch[q] = "returns"} |->
             fetch_single(f, pair)]

\* the dict fetch_all merges for one source: what _fetch_source_batch
\* returns (None for every pair of the workload on a timeout or an
\* exception), and None for every pair of the workload when the task ended
\* with an exception that gather handed back
fetch_source_batch(f, workload) ==
    IF f.supports_batch
    THEN IF fetch_batch_fails(f, workload)
         THEN [pair \in SeqToSet(workload) |-> None]
         ELSE fetch_batch_returns(f, workload)
    ELSE [pair \in SeqToSet(workload) |-> fetch_single(f, pair)]

\* fetch_all from the gather to the return: the results of the tasks of
\* source_pairs sp are merged into the entries of the pairs
fetch_all_merge(fs, pairs, sp) ==
    LET task == [source \in DOMAIN sp |-> fetch_source_batch(fs[source], sp[source])]
    IN  [pair \in SeqToSet(pairs) |->
            [source \in {x \in DOMAIN sp : pair \in DOMAIN task[x]} |->
                task[source][pair]]]

\* fetch_all(pairs, active_sources): the dict returned, and with it the
\* calls made (source_pairs: every source called and the pairs it was given)
fetch_all(fs, pairs, active) ==
    IF pairs = <<>> THEN [results |-> <<>>, calls |-> <<>>]
    ELSE LET sp == source_pairs(fs, pairs, active)
         IN  [results |-> fetch_all_merge(fs, pairs, sp), calls |-> sp]

FetchAllPairs == {<<"btc/usd", "usdt/usd">>, <<"usdt/usd">>, <<>>}
FetchAllActive ==
    {None,
     Some([p \in Pairs |-> IF p = "btc/usd" THEN <<"a", "b">> ELSE <<"b">>]),
     Some([p \in {"btc/usd"} |-> <<"a">>]),
     Some([p \in Pairs |-> IF p = "btc/usd" THEN <<>> ELSE <<"a", "b">>]),
     Some([p \in Pairs |-> IF p = "btc/usd" THEN <<"b">> ELSE <<>>])}

\* adapter a is batch-capable, adapter b is not
FetchAllAdapterA ==
    {f \in [is_coroutine : BOOLEAN, supports : [Pairs -> {"True", "False"}],
            supports_batch : {TRUE},
            batch : {"returns", "raises", "timeout", "cancelled"},
            keys : {"inherited", "workload", "all", "none"},
            fetch : {[p \in Pairs |-> "returns"]},
            answer : {[p \in Pairs |-> IF p = "btc/usd" THEN Some(400) ELSE None]}] :
        f.batch # "returns" => f.keys = "workload"}
FetchAllAdapterB ==
    [is_coroutine : {FALSE}, supports : [Pairs -> {"True", "False"}],
     supports_batch : {FALSE},
     batch : {"returns"},
     keys : {"workload"},
     fetch : {[p \in Pairs |-> IF p = "btc/usd" THEN o ELSE "returns"] :
                 o \in {"returns", "raises", "timeout"}},
     answer : {[p \in Pairs |-> IF p = "btc/usd" THEN v ELSE Some(404)] :
                 v \in {None, Some(400)}}]

InitFetchAll ==
    /\ now = 0
    /\ IdleSM /\ IdleAgg /\ IdleObs /\ IdleLoop /\ IdleCache /\ IdleChain
    /\ \E fa \in FetchAllAdapterA : \E fb \in FetchAllAdapterB :
           fetchers = [source \in {"a", "b"} |-> IF source = "a" THEN fa ELSE fb]
    /\ \E pairs \in FetchAllPairs : \E active \in FetchAllActive :
           args = [pairs |-> pairs, active_sources |-> active, source_pairs |-> None]
    /\ returned = None

\* fetch_all up to its await: the workloads are fixed and the tasks are
\* handed to gather (args.source_pairs holds them while the call is
\* suspended); without pairs and without tasks it returns at once
FetchAll ==
    LET sp == source_pairs(fetchers, args.pairs, args.active_sources)
    IN  /\ returned = None
        /\ args.source_pairs = None
        /\ IF args.pairs = <<>> \/ DOMAIN sp = {}
           THEN /\ returned' =
                       Some(fetch_all(fetchers, args.pairs, args.active_sources))
                /\ UNCHANGED args
           ELSE /\ args' = [args EXCEPT !.source_pairs = Some(sp)]
                /\ UNCHANGED returned
        /\ UNCHANGED <<now, smVars, aggVars, obsVars, loopVars, cacheVars, chainVars,
                       fetchers>>

\* the gather has returned: the results are merged and fetch_all returns
FetchAllReturns ==
    /\ returned = None
    /\ args.source_pairs # None
    /\ returned' = Some([results |-> fetch_all_merge(fetchers, args.pairs,
                                                     args.source_pairs[1]),
                         calls |-> args.source_pairs[1]])
    /\ UNCHANGED <<now, smVars, aggVars, obsVars, loopVars, cacheVars, chainVars,
                   fetchers, args>>

NextFetchAll ==
    \/ FetchAll
    \/ FetchAllReturns

SpecFetchAll == InitFetchAll /\ [][NextFetchAll]_vars

\* source is named in the active-source list given for pair; without a
\* mapping (active_sources is None) every source counts as active
InActiveList(source, pair) ==
    \/ args.active_sources = None
    \/ /\ pair \in DOMAIN args.active_sources[1]
       /\ source \in SeqToSet(args.active_sources[1][pair])

\* the pairs the call handed to source, none if it was not called
Workload(source) ==
    IF source \in DOMAIN returned[1].calls
    THEN SeqToSet(returned[1].calls[source]) ELSE {}

(***************************************************************************)
(* C22: in fetch_all an adapter is scheduled to fetch a pair if and only   *)
(* if it supports the pair and its name is in that pair's active-source    *)
(* list, and an adapter whose workload is empty receives no call.          *)
(***************************************************************************)
C22_ScheduledIffSupportedAndActive ==
    returned # None =>
        \A source \in DOMAIN fetchers :
            /\ \A pair \in SeqToSet(args.pairs) :
                   pair \in Workload(source) <=>
                       (ReportsSupport(source, pair) /\ InActiveList(source, pair))
            /\ source \in DOMAIN returned[1].calls => Workload(source) # {}

\* the task of source failed as a whole: its fetch_batch raised (the
\* inherited one does when supports_pair is a plain method), ran into the
\* timeout or was cancelled
TaskFailed(source) ==
    /\ fetchers[source].supports_batch
    /\ \/ fetchers[source].batch # "returns"
       \/ fetchers[source].keys = "inherited" /\ ~fetchers[source].is_coroutine
\* the single fetch of pair by source raised or ran into the timeout
FetchFailed(source, pair) ==
    ~fetchers[source].supports_batch /\ fetchers[source].fetch[pair] # "returns"

(***************************************************************************)
(* C23: fetch_all always returns a map; an adapter task that raises or     *)
(* exceeds the timeout yields None for every pair of that adapter's        *)
(* workload (for an adapter without batch support: for the pair whose      *)
(* fetch raised or timed out), and the results of the other adapters are   *)
(* returned as they gave them.                                             *)
(***************************************************************************)
C23_FailedTaskYieldsNone ==
    returned # None =>
        /\ DOMAIN returned[1].results = SeqToSet(args.pairs)
        /\ \A source \in DOMAIN fetchers : \A pair \in Workload(source) :
               LET f == fetchers[source] IN
               /\ (TaskFailed(source) \/ FetchFailed(source, pair)) =>
                      /\ source \in DOMAIN returned[1].results[pair]
                      /\ returned[1].results[pair][source] = None
               /\ (~TaskFailed(source) /\ ~FetchFailed(source, pair)
                      /\ f.keys = "workload") =>
                      /\ source \in DOMAIN returned[1].results[pair]
                      /\ returned[1].results[pair][source] = f.answer[pair]
               /\ (~TaskFailed(source) /\ f.keys = "inherited") =>
                      /\ source \in DOMAIN returned[1].results[pair]
                      /\ returned[1].results[pair][source] =
                             IF ReportsSupport(source, pair) THEN f.answer[pair]
                             ELSE None

\* the batch of a failed for a workload of two pairs while b answered 100.0
\* for btc/usd: the map holds None for a and the price for b
C23_Witness ==
    /\ returned # None
    /\ fetchers["a"].batch \in {"raises", "timeout"}
    /\ Workload("a") = Pairs
    /\ "btc/usd" \in Workload("b")
    /\ returned[1].results["btc/usd"]["a"] = None
    /\ returned[1].results["usdt/usd"]["a"] = None
    /\ returned[1].results["btc/usd"]["b"] = Some(400)

(***************************************************************************)
(* C24: in the map fetch_all returns, the entry of each pair has a key     *)
(* for every adapter that was scheduled for the pair and for no other      *)
(* adapter, whatever the adapters return.                                  *)
(***************************************************************************)
C24_KeysAreScheduledAdapters ==
    returned # None =>
        \A pair \in SeqToSet(args.pairs) :
            DOMAIN returned[1].results[pair] =
                {source \in DOMAIN fetchers : pair \in Workload(source)}

(***************************************************************************)
(* PriceOracle.run: for each pair in turn the aggregator contract is       *)
(* ensured (detect_or_deploy_contract) and the pair's loop task is         *)
(* created; run then sleeps, the task ("created") takes its first step up  *)
(* to its first await, and the loops run as above.  When                   *)
(* detect_or_deploy_contract raises, run ends ("unavailable"); the tasks   *)
(* created so far are cancelled by asyncio.run once the event loop has     *)
(* stopped, and until then a task that is ready still takes its step.      *)
(* The chain holds, per pair, the                                          *)
(* directory entry of the pair's feed (feed: the directory returns a       *)
(* non-zero address) and decimals() and description() of the pair's        *)
(* aggregator contract (description: the string is not empty).             *)
(***************************************************************************)
NUM_DECIMALS == 10
\* the contracts found at start have at most this many decimals, and a loop
\* whose contract has more is not followed: its scaled prices exceed the
\* integers of the model checker
MaxDecimals == 1
\* startup and the first ticks of the loops: the clock stops here
MaxTimeRun == 4
\* self.pairs, in the order of the configuration
RunPairs == <<"btc/usd", "usdt/usd">>
\* how a submit_tx call ends: the transaction is executed, the daemon returns
\* a result for a transaction that was not executed, or the call raises
TxOutcomes == {"ok", "rejected", "raised"}
\* what the environment does to one detect_or_deploy_contract call
RunEnvs ==
    [appid : {"ok", "raised"}, deploy : TxOutcomes,
     set_decimals : TxOutcomes, set_description : TxOutcomes]

\* the aggregator setDecimals(NUM_DECIMALS) acts on, after the transaction
set_decimals_effect(ch, outcome) ==
    IF outcome = "ok" THEN [ch EXCEPT !.decimals = NUM_DECIMALS] ELSE ch
\* the aggregator setDescription(str(pair)) acts on, after the transaction
set_description_effect(ch, outcome) ==
    IF outcome = "ok" THEN [ch EXCEPT !.description = TRUE] ELSE ch
\* addFeed(str(pair), 0x0, False): the directory deploys a new aggregator,
\* with no decimals and no description yet, and lists it
add_feed_effect(ch, outcome) ==
    IF outcome = "ok"
    THEN [feed |-> TRUE, decimals |-> 0, description |-> FALSE]
    ELSE ch

\* a plausible slip: the contract found is not entered in self.contracts
detect_contract_unregistered(ch, env) ==
    [found |-> ch.feed, raised |-> FALSE, registered |-> FALSE, chain |-> ch,
     calls |-> IF ch.feed THEN <<"feeds", "decimals", "description">> ELSE <<"feeds">>]

\* _detect_contract: found tells what it returned, raised that submit_tx
\* raised out of it, registered that self.contracts[pair] was assigned
detect_contract(ch, env) ==
    IF ~ch.feed
    THEN [found |-> FALSE, raised |-> FALSE, registered |-> FALSE, chain |-> ch,
          calls |-> <<"feeds">>]
    ELSE LET read == <<"feeds", "decimals", "description">>
             ch1  == IF ch.decimals = 0
                     THEN set_decimals_effect(ch, env.set_decimals) ELSE ch
             c1   == IF ch.decimals = 0 THEN Append(read, "setDecimals") ELSE read
         IN  IF ch.decimals = 0 /\ env.set_decimals = "raised"
             THEN [found |-> FALSE, raised |-> TRUE, registered |-> TRUE,
                   chain |-> ch, calls |-> c1]
             ELSE IF ~ch.description
             THEN [found |-> env.set_description # "raised",
                   raised |-> env.set_description = "raised",
                   registered |-> TRUE,
                   chain |-> set_description_effect(ch1, env.set_description),
                   calls |-> Append(c1, "setDescription")]
             ELSE [found |-> TRUE, raised |-> FALSE, registered |-> TRUE,
                   chain |-> ch1, calls |-> c1]

\* detect_or_deploy_contract(pair): how it ends ("returned", or the
\* exception that leaves it), whether the pair has a handle afterwards, the
\* pair's chain state afterwards and the calls made, in order
detect_or_deploy_contract(has_handle, ch, env) ==
    IF has_handle
    THEN [outcome |-> "returned", registered |-> TRUE, chain |-> ch, calls |-> <<>>]
    ELSE IF env.appid = "raised"
    THEN [outcome |-> "appd_error", registered |-> FALSE, chain |-> ch,
          calls |-> <<"fetch_appid">>]
    ELSE
    LET d1 == detect_contract(ch, env)
        k1 == <<"fetch_appid">> \o d1.calls
    IN  IF d1.raised
        THEN [outcome |-> "appd_error", registered |-> d1.registered,
              chain |-> d1.chain, calls |-> k1]
        ELSE IF d1.found
        THEN [outcome |-> "returned", registered |-> d1.registered,
              chain |-> d1.chain, calls |-> k1]
        ELSE IF env.deploy = "raised"
        THEN [outcome |-> "appd_error", registered |-> FALSE, chain |-> d1.chain,
              calls |-> Append(k1, "addFeed")]
        ELSE
        LET ch2 == add_feed_effect(d1.chain, env.deploy)
            d2  == detect_contract(ch2, env)
            k2  == Append(k1, "addFeed") \o d2.calls
        IN  IF d2.raised
            THEN [outcome |-> "appd_error", registered |-> d2.registered,
                  chain |-> d2.chain, calls |-> k2]
            ELSE IF d2.found
            THEN [outcome |-> "returned", registered |-> d2.registered,
                  chain |-> d2.chain, calls |-> k2]
            ELSE [outcome |-> "contract_unavailable", registered |-> FALSE,
                  chain |-> d2.chain, calls |-> k2]

\* the pairs with an address in aggregator_addresses
RunPreassigned == SUBSET Pairs
\* the chain at start: a pair that is neither listed nor pre-assigned has no
\* aggregator
RunChains(pre) ==
    {c \in [Pairs -> [feed : BOOLEAN, decimals : 0..MaxDecimals,
                      description : BOOLEAN]] :
        \A p \in Pairs :
            (~c[p].feed /\ p \notin pre) => (c[p].decimals = 0 /\ ~c[p].description)}
\* the sources answer 100.0 and 100.0, or one of them does not answer
RunAnswers(p) ==
    {Restrict(a, SeqToSet(active_sources[p])) :
        a \in {[a |-> Some(400), b |-> Some(400)], [a |-> None, b |-> Some(400)]}}

InitRun ==
    /\ now = 0
    /\ sources = [p \in Pairs |-> LoopSources]
    /\ status = [p \in Pairs |-> NewStatus(LoopSources)]
    /\ ret = NoRet
    /\ IdleAgg /\ IdleObs /\ IdleLoop /\ IdleCache
    /\ fetchers = <<>>
    /\ \E pre \in RunPreassigned :
           /\ args = [aggregator_addresses |-> pre]
           /\ contracts = [p \in pre |-> "configured"]
           /\ chain \in RunChains(pre)
    /\ returned = None
    /\ interactions = <<>>

\* the next pair run deals with
RunNext(p) ==
    \E i \in DOMAIN RunPairs :
        /\ RunPairs[i] = p
        /\ pc[p] = "idle"
        /\ \A j \in 1..(i - 1) : pc[RunPairs[j]] \notin {"idle", "unavailable"}

\* run has ended with the exception of detect_or_deploy_contract
RunEnded == \E q \in Pairs : pc[q] = "unavailable"

\* a task that was created and has not taken its first step is ready
NoneCreated == \A q \in Pairs : pc[q] # "created"

\* run sleeps until it deals with its next pair; once run has ended the
\* event loop stops and no later timer fires
RunSleepsUntil(t) ==
    /\ t <= MaxTimeRun
    /\ \A q \in Pairs : RunNext(q) => t <= LoopStart(q)
    /\ t > now => NoneCreated /\ ~RunEnded

\* run, one pair: detect_or_deploy_contract(pair); if it returns the pair's
\* task is created and run sleeps a second, if it raises run ends
RunStart(p, env) ==
    LET r == detect_or_deploy_contract(p \in DOMAIN contracts, chain[p], env)
        t == Max2(now, LoopStart(p))
    IN  /\ RunNext(p)
        /\ NoneCreated
        /\ NoneDueBefore(t)
        /\ now' = t
        /\ returned' = Some([pair |-> p, outcome |-> r.outcome])
        /\ chain' = [chain EXCEPT ![p] = r.chain]
        /\ contracts' =
               IF r.registered /\ p \notin DOMAIN contracts
               THEN [q \in DOMAIN contracts \cup {p} |->
                        IF q = p THEN "detected" ELSE contracts[q]]
               ELSE contracts
        /\ interactions' = interactions \o [i \in DOMAIN r.calls |-> <<p, r.calls[i]>>]
        /\ pc' = [pc EXCEPT ![p] =
                     IF r.outcome = "returned" THEN "created" ELSE "unavailable"]
        /\ UNCHANGED <<smVars, aggVars, obsVars, wake_at, active_sources,
                       cacheVars, fetchers, args>>

\* the first step of the pair's task, up to its first await: decimals is
\* read from the contract, last_submit is the time of the step, and the
\* first pass of the loop computes the active list and issues the fetches
\* or sleeps
LoopEnter(p) ==
    LET active == get_active_sources(sources[p], status[p], now)
    IN  /\ pc[p] = "created"
        /\ decimals' = [decimals EXCEPT ![p] = chain[p].decimals]
        /\ last_submit' = [last_submit EXCEPT ![p] = now]
        /\ IF chain[p].decimals > MaxDecimals
           THEN /\ pc' = [pc EXCEPT ![p] = "unfollowed"]
                /\ UNCHANGED <<wake_at, active_sources>>
           ELSE IF active = <<>>
           THEN /\ pc' = [pc EXCEPT ![p] = "tick"]
                /\ wake_at' = [wake_at EXCEPT ![p] = now + fetch_period]
                /\ UNCHANGED active_sources
           ELSE /\ pc' = [pc EXCEPT ![p] = "gather"]
                /\ active_sources' = [active_sources EXCEPT ![p] = active]
                /\ UNCHANGED wake_at
        /\ UNCHANGED <<now, smVars, aggVars, observations, last_good_median,
                       round_id, latest_round_data, tx, submit_result,
                       cacheVars, chainVars, callVars>>

\* asyncio.run, after run has ended with an exception: the tasks that are
\* left are cancelled
RunCancels ==
    /\ RunEnded
    /\ \E q \in Pairs : pc[q] \in {"created", "tick", "gather", "unfollowed"}
    /\ pc' = [q \in Pairs |->
                 IF pc[q] \in {"created", "tick", "gather", "unfollowed"}
                 THEN "cancelled" ELSE pc[q]]
    /\ UNCHANGED <<now, smVars, aggVars, obsVars, wake_at, active_sources,
                   cacheVars, chainVars, callVars>>

NextRun ==
    \/ \E p \in Pairs : \E env \in RunEnvs : RunStart(p, env)
    \/ \E p \in Pairs : LoopEnter(p)
    \/ \E p \in Pairs : RunSleepsUntil(Max2(now, wake_at[p])) /\ LoopTick(p)
    \/ \E p \in Pairs : \E d \in RunAnswers(p) : LoopGathered(p, d, 0)
    \/ RunCancels

SpecRun == InitRun /\ [][NextRun]_vars

(***************************************************************************)
(* C31: for every pair, the decimals read from the aggregator contract are *)
(* strictly positive whenever an observation is scaled and appended, also  *)
(* for a pair whose aggregator address was pre-assigned by configuration   *)
(* and when the setDecimals transaction did not succeed.                   *)
(***************************************************************************)
C31_DecimalsPositiveAtObservation ==
    \A p \in Pairs : observations[p] # <<>> => decimals[p] > 0

\* the step in which run deals with pair p
EnsureStep(p) == pc[p] = "idle" /\ pc'[p] # "idle"

\* the calls the step made, in order
NewCalls ==
    [i \in 1..(Len(interactions') - Len(interactions)) |->
        interactions'[Len(interactions) + i][2]]

(***************************************************************************)
(* C34: detect_or_deploy_contract returns normally only when the pair has  *)
(* a contract handle registered; it submits a deploy transaction at most   *)
(* once and only after a first detection found no contract, detects again  *)
(* once the deploy submission has returned, and raises when the contract   *)
(* is still not found: the pair gets no loop and run deals with no pair    *)
(* after it; for a pair that already has a handle it makes no call to the  *)
(* chain or to the daemon.                                                 *)
(***************************************************************************)
C34_DetectOrDeployContract ==
    [][/\ RunEnded => \A q \in Pairs : pc[q] = "idle" => pc'[q] = "idle"
       /\ \A p \in Pairs : EnsureStep(p) =>
          LET out     == returned'[1].outcome
              ops     == NewCalls
              deploys == {i \in DOMAIN ops : ops[i] = "addFeed"}
              detects == {i \in DOMAIN ops : ops[i] = "feeds"}
          IN  /\ returned'[1].pair = p
              /\ out = "returned" => p \in DOMAIN contracts'
              /\ Cardinality(deploys) <= 1
              /\ \A i \in deploys :
                     /\ \E j \in detects : j < i
                     /\ ~chain[p].feed
                     /\ Cardinality(detects) <= 2
                     /\ out # "appd_error" => \E j \in detects : j > i
              /\ (\E i \in deploys : \E j \in detects : j > i /\ ~chain'[p].feed)
                     => out = "contract_unavailable"
              /\ out = "contract_unavailable" =>
                     /\ deploys # {}
                     /\ ~chain'[p].feed
                     /\ p \notin DOMAIN contracts'
              /\ out = "returned" <=> pc'[p] = "created"
              /\ out # "returned" <=> pc'[p] = "unavailable"
              /\ p \in DOMAIN contracts =>
                     /\ ops = <<>>
                     /\ out = "returned"
                     /\ chain' = chain /\ contracts' = contracts]_vars

\* a pair whose contract was deployed and then detected has its handle and
\* its loop
C34_Witness ==
    \E p \in Pairs :
        /\ returned = Some([pair |-> p, outcome |-> "returned"])
        /\ \E i \in DOMAIN interactions : interactions[i] = <<p, "addFeed">>
        /\ p \in DOMAIN contracts
        /\ p \notin args.aggregator_addresses
        /\ pc[p] \in {"created", "gather", "unfollowed"}

(***************************************************************************)
(* The observation loops with submit_tx as a call that takes time: the     *)
(* call and its end are two steps, both entered in interactions (the call  *)
(* as "submit_tx", its end as the outcome).                                *)
(* submit_tx is an ordinary (blocking) call of the loop task, so between   *)
(* the two no task of the event loop runs.                                 *)
(***************************************************************************)
\* loops with submissions in progress: the clock stops here
MaxTimeSubmit == 17
\* a plausible slip: the submission is started and not waited for
pc_after_call_detached == "tick"
\* where a task stands once it has called submit_tx
pc_after_call == "submit_tx"

\* the submit_period the oracle is constructed with
ConfiguredSubmitPeriods == {2, 7}
\* a plausible slip: the configured period is taken as it is
effective_submit_period_unclamped(configured) == configured
\* self.submit_period = max(6, submit_period)
effective_submit_period(configured) == Max2(6, configured)

InitSubmit ==
    /\ now = 0
    /\ sources = [p \in Pairs |-> LoopSources]
    /\ status = [p \in Pairs |-> NewStatus(LoopSources)]
    /\ ret = NoRet
    /\ IdleAgg /\ IdleCache /\ IdleChain
    /\ fetchers = <<>>
    /\ \E configured \in ConfiguredSubmitPeriods : args = [submit_period |-> configured]
    /\ returned = None
    /\ decimals = [p \in Pairs |-> 1]
    /\ latest_round_data = [p \in Pairs |-> ObsRoundData(p)]
    /\ round_id = [p \in Pairs |-> latest_round_data[p][1]]
    /\ last_good_median =
           [p \in Pairs |-> seed_last_good_median(latest_round_data[p], decimals[p])]
    /\ observations = [p \in Pairs |-> <<>>]
    /\ last_submit = [p \in Pairs |-> LoopStart(p)]
    /\ tx = [p \in Pairs |-> None]
    /\ submit_result = [p \in Pairs |-> "none"]
    /\ pc = [p \in Pairs |-> "tick"]
    /\ wake_at = [p \in Pairs |-> LoopStart(p)]
    /\ active_sources = [p \in Pairs |-> <<>>]

\* a submit_tx call has not returned: the thread of the event loop is in it
Blocked == \E q \in Pairs : pc[q] = "submit_tx"

\* submit_tx calls of pair p that have not ended
InFlight(p) ==
    Cardinality({i \in DOMAIN interactions : interactions[i] = <<p, "submit_tx">>})
    - Cardinality({i \in DOMAIN interactions :
                      interactions[i] \in {<<p, "ok">>, <<p, "rejected">>,
                                           <<p, "raised">>}})

\* top of the loop body, as LoopTick
CallTick(p) ==
    LET t == Max2(now, wake_at[p])
        active == get_active_sources(sources[p], status[p], t)
    IN  /\ pc[p] = "tick"
        /\ ~Blocked
        /\ EarliestSleeper(p)
        /\ t <= MaxTimeSubmit
        /\ now' = t
        /\ IF active = <<>>
           THEN /\ wake_at' = [wake_at EXCEPT ![p] = t + fetch_period]
                /\ UNCHANGED <<pc, active_sources>>
           ELSE /\ pc' = [pc EXCEPT ![p] = "gather"]
                /\ active_sources' = [active_sources EXCEPT ![p] = active]
                /\ UNCHANGED wake_at
        /\ UNCHANGED <<smVars, aggVars, obsVars, cacheVars, callVars, chainVars>>

\* the gather returns with the answers d; the loop body runs up to the next
\* asyncio.sleep or into submit_tx
CallGathered(p, r) ==
    LET t      == now
        d      == gathered(r)
        valid  == Restrict(d, {k \in DOMAIN d : d[k] # None})
        result == aggregate(active_sources[p], valid, last_good_median[p])
        obs1   == Append(observations[p],
                         <<price_scaled(result.price[1], decimals[p]), t>>)
    IN  /\ pc[p] = "gather"
        /\ ~Blocked
        /\ status' = [status EXCEPT ![p] =
                         update_health(@, active_sources[p], d, sources[p], t)]
        /\ agg_result' = [agg_result EXCEPT ![p] = Some(result)]
        /\ active_sources' = [active_sources EXCEPT ![p] = <<>>]
        /\ IF ~success(result)
           THEN /\ pc' = [pc EXCEPT ![p] = "tick"]
                /\ wake_at' = [wake_at EXCEPT ![p] = t + fetch_period]
                /\ UNCHANGED <<observations, last_good_median, round_id, tx,
                               interactions>>
           ELSE /\ last_good_median' = [last_good_median EXCEPT ![p] = result.price]
                /\ observations' = [observations EXCEPT ![p] = obs1]
                /\ IF ~(t - last_submit[p] > effective_submit_period(args.submit_period))
                   THEN /\ pc' = [pc EXCEPT ![p] = "tick"]
                        /\ wake_at' = [wake_at EXCEPT ![p] = t + fetch_period]
                        /\ UNCHANGED <<round_id, tx, interactions>>
                   ELSE /\ round_id' = [round_id EXCEPT ![p] = submit_round_id(@)]
                        /\ tx' = [tx EXCEPT ![p] =
                                     Some(submitObservation(round_id'[p], obs1))]
                        /\ interactions' = Append(interactions, <<p, "submit_tx">>)
                        /\ pc' = [pc EXCEPT ![p] = pc_after_call]
                        /\ UNCHANGED wake_at
        /\ UNCHANGED <<now, sources, ret, prices, drift_limit, last_submit, decimals,
                       latest_round_data, submit_result, cacheVars, callVars,
                       chain, contracts>>

\* submit_tx ends as outcome after sdur seconds; the loop body runs on to
\* its asyncio.sleep, or the exception leaves the loop
CallReturns(p, outcome, sdur) ==
    /\ pc[p] = "submit_tx"
    /\ now + sdur <= MaxTimeSubmit
    /\ now' = now + sdur
    /\ submit_result' = [submit_result EXCEPT ![p] = outcome]
    /\ interactions' = Append(interactions, <<p, outcome>>)
    /\ IF outcome = "raised"
       THEN /\ pc' = [pc EXCEPT ![p] = "crashed"]
            /\ UNCHANGED <<observations, last_submit, wake_at>>
       ELSE /\ last_submit' = [last_submit EXCEPT ![p] = now + sdur]
            /\ observations' = [observations EXCEPT ![p] = <<>>]
            /\ pc' = [pc EXCEPT ![p] = "tick"]
            /\ wake_at' = [wake_at EXCEPT ![p] = now + sdur + fetch_period]
    /\ UNCHANGED <<smVars, aggVars, last_good_median, round_id, decimals,
                   latest_round_data, tx, active_sources, cacheVars, callVars,
                   chain, contracts>>

\* the sources answer 100.0 and 100.0, or the first source of btc/usd does
\* not answer
CallAnswers(p) ==
    {Restrict(a, SeqToSet(active_sources[p])) :
        a \in {[a |-> Some(400), b |-> Some(400)]} \cup
              (IF p = "btc/usd" THEN {[a |-> None, b |-> Some(400)]} ELSE {})}

NextSubmit ==
    \/ \E p \in Pairs : CallTick(p)
    \/ \E p \in Pairs : \E d \in CallAnswers(p) : CallGathered(p, d)
    \/ \E p \in Pairs : \E outcome \in {"ok", "rejected", "raised"} :
           \E sdur \in SubmitDurations : CallReturns(p, outcome, sdur)
    \/ RunFails

SpecSubmit == InitSubmit /\ [][NextSubmit]_vars

(***************************************************************************)
(* C32: with one observation loop per pair running concurrently, there is  *)
(* never more than one submit_tx call in flight for the same pair: a       *)
(* pair's next submission starts only after its previous call returned.    *)
(***************************************************************************)
C32_OneSubmitInFlight ==
    \A p \in Pairs : InFlight(p) \in {0, 1}

\* the second submission of a pair is in flight, the first has returned
C32_Witness ==
    \E p \in Pairs :
        /\ InFlight(p) = 1
        /\ Cardinality({i \in DOMAIN interactions :
                           interactions[i] = <<p, "submit_tx">>}) = 2
        /\ pc[p] = "submit_tx"

\* the step in which the task of pair p calls submit_tx
CallStep(p) ==
    /\ Len(interactions') = Len(interactions) + 1
    /\ interactions'[Len(interactions')] = <<p, "submit_tx">>

\* submit_tx calls made for pair p so far
CallsOf(p) ==
    Cardinality({i \in DOMAIN interactions : interactions[i] = <<p, "submit_tx">>})

(***************************************************************************)
(* C33: for each pair, a submission starts strictly more than              *)
(* submit_period seconds after the previous submission of the pair ended,  *)
(* the first one strictly more than submit_period seconds after the pair's *)
(* loop state was created, and the period in effect is at least 6 seconds  *)
(* whatever was configured.                                                *)
(***************************************************************************)
C33_SubmissionsSpaced ==
    [][\A p \in Pairs : CallStep(p) =>
          /\ now' - last_submit[p] > args.submit_period
          /\ now' - last_submit[p] > 6
          /\ CallsOf(p) = 0 => last_submit[p] = LoopStart(p)
          /\ CallsOf(p) > 0 =>
                 \E i \in DOMAIN interactions :
                     /\ interactions[i] \in {<<p, "ok">>, <<p, "rejected">>}
                     /\ \A j \in DOMAIN interactions :
                            interactions[j] = <<p, "submit_tx">> => j < i]_vars

\* a pair has started its second submission, with a configured period
\* below the floor
C33_Witness ==
    \E p \in Pairs :
        /\ CallsOf(p) = 2
        /\ args.submit_period < 6

\* the round id of the last submission attempted for pair p: the one handed
\* to submit_tx last, or the contract's latest round when none was yet
LastAttempted(p) ==
    IF tx[p] = None THEN latest_round_data[p][1] ELSE tx[p][1].round_id

\* the last submit_tx call of pair p ended without the transaction accepted
LastAttemptFailed(p) ==
    \E i \in DOMAIN interactions :
        /\ interactions[i] \in {<<p, "rejected">>, <<p, "raised">>}
        /\ \A j \in DOMAIN interactions : j > i => interactions[j][1] # p

(***************************************************************************)
(* C35: round_id is incremented before the signing daemon is called and is *)
(* never rolled back: every submission attempt of a pair uses the round id *)
(* of the pair's previous attempt plus one, also when that attempt failed, *)
(* so the attempt after one failed attempt uses a round id 2 greater than  *)
(* the round id of the last submission that succeeded.                     *)
(***************************************************************************)
C35_RoundIdNotRolledBack ==
    [][\A p \in Pairs :
          /\ round_id'[p] >= round_id[p]
          /\ CallStep(p) =>
                 /\ tx'[p][1].round_id = LastAttempted(p) + 1
                 /\ round_id'[p] = tx'[p][1].round_id
                 /\ round_id[p] = LastAttempted(p)
                 /\ (CallsOf(p) = 1 /\ LastAttemptFailed(p)) =>
                        tx'[p][1].round_id = latest_round_data[p][1] + 2]_vars

\* the first attempt of a pair was rejected and its second attempt is under
\* way, with the round id two above the contract's latest round
C35_Witness ==
    \E p \in Pairs :
        /\ \E i \in DOMAIN interactions :
               /\ interactions[i] = <<p, "rejected">>
               /\ \E j \in DOMAIN interactions :
                      j > i /\ interactions[j] = <<p, "submit_tx">>
        /\ CallsOf(p) = 2
        /\ tx[p][1].round_id = latest_round_data[p][1] + 2

(***************************************************************************)
(* RoflUtilityAppd: one request to the signing daemon (_appd_get or        *)
(* _appd_post).  An attempt is two steps: client.get / client.post is      *)
(* called, and the call ends.  The call is made with timeout=None, so      *)
(* nothing in the program ends an attempt the daemon does not answer:      *)
(* chain.pending tells that an attempt is open.  interactions holds the    *)
(* attempts that failed, each with the sleep that followed it.  A delay of *)
(* x seconds is the integer x * DelayUnit, which is exact for every delay  *)
(* the code computes.                                                      *)
(***************************************************************************)
MAX_RETRIES == 30
\* one second of delay
DelayUnit == 16
BACKOFF_BASE == 1 * DelayUnit
BACKOFF_MAX == 5 * DelayUnit

\* 1.5 ** attempt, in delay units; once above BACKOFF_MAX the power is not
\* followed further (the minimum taken of it is BACKOFF_MAX either way)
RECURSIVE PowOneAndHalf(_)
PowOneAndHalf(attempt) ==
    IF attempt = 0 THEN DelayUnit
    ELSE LET below == PowOneAndHalf(attempt - 1)
         IN  IF below > BACKOFF_MAX THEN below ELSE (below * 3) \div 2

\* delay = min(BACKOFF_BASE * (1.5 ** attempt), BACKOFF_MAX)
appd_delay(attempt) ==
    Min2((BACKOFF_BASE * PowOneAndHalf(attempt)) \div DelayUnit, BACKOFF_MAX)

\* the requests the utility makes: fetch_appid, fetch_key and submit_tx
AppdRequests ==
    {[method |-> "GET",  path |-> "/rofl/v1/app/id"],
     [method |-> "POST", path |-> "/rofl/v1/keys/generate"],
     [method |-> "POST", path |-> "/rofl/v1/tx/sign-submit"]}
\* how one attempt ends, when it ends: a successful response, a response
\* with an error status, or httpx.RequestError
AppdOutcomes == {"success", "http_error", "request_error"}

InitAppd ==
    /\ now = 0
    /\ IdleSM /\ IdleAgg /\ IdleObs /\ IdleLoop /\ IdleCache
    /\ fetchers = <<>>
    /\ args \in AppdRequests
    /\ returned = None
    /\ chain = [pending |-> FALSE]
    /\ contracts = <<>>
    /\ interactions = <<>>

\* "for attempt in range(MAX_RETRIES)": client.get / client.post is called
\* with timeout=None
AppdSend ==
    /\ returned = None
    /\ ~chain.pending
    /\ Len(interactions) < MAX_RETRIES
    /\ chain' = [pending |-> TRUE]
    /\ UNCHANGED <<now, smVars, aggVars, obsVars, loopVars, cacheVars, callVars,
                   contracts, interactions>>

\* the call of the attempt ends: the rest of the iteration, and the raise
\* that follows the last one
AppdAttempt(outcome) ==
    LET attempt == Len(interactions)
    IN  /\ returned = None
        /\ chain.pending
        /\ chain' = [pending |-> FALSE]
        /\ IF outcome = "success"
           THEN /\ returned' = Some([kind |-> "response", attempts |-> attempt + 1])
                /\ UNCHANGED interactions
           ELSE /\ interactions' =
                       Append(interactions,
                              [attempt |-> attempt + 1, delay |-> appd_delay(attempt)])
                /\ returned' =
                       IF attempt + 1 = MAX_RETRIES
                       THEN Some([kind |-> "RuntimeError", attempts |-> attempt + 1])
                       ELSE None
        /\ UNCHANGED <<now, smVars, aggVars, obsVars, loopVars, cacheVars, fetchers,
                       args, contracts>>

NextAppd ==
    \/ AppdSend
    \/ \E outcome \in AppdOutcomes : AppdAttempt(outcome)

SpecAppd == InitAppd /\ [][NextAppd]_vars

\* the thread of the utility runs: an attempt that is due is made.  That an
\* open attempt ends is up to the daemon and the transport
SpecAppdFair == SpecAppd /\ WF_vars(AppdSend)

\* what holds of a request at any moment
AppdBounded ==
    /\ Len(interactions) <= MAX_RETRIES
    /\ \A i \in DOMAIN interactions :
           /\ interactions[i].attempt = i
           /\ interactions[i].delay <= BACKOFF_MAX
           /\ i = 1 => interactions[i].delay = BACKOFF_BASE
           /\ i > 1 => 2 * interactions[i].delay =
                          Min2(3 * interactions[i - 1].delay, 2 * BACKOFF_MAX)
    /\ returned # None =>
           /\ returned[1].attempts <= MAX_RETRIES
           /\ returned[1].kind = "response" =>
                  returned[1].attempts = Len(interactions) + 1
           /\ returned[1].kind = "RuntimeError" <=> Len(interactions) = MAX_RETRIES
           /\ returned[1].kind = "RuntimeError" => returned[1].attempts = MAX_RETRIES

(***************************************************************************)
(* C36: every request to the signing daemon terminates: it returns the     *)
(* first successful response, after at most 30 attempts, or raises         *)
(* RuntimeError after exactly 30 unsuccessful attempts; the wait after an  *)
(* attempt starts at 1 s, grows by the factor 1.5 and never exceeds 5 s.   *)
(***************************************************************************)
C36_RequestTerminates ==
    /\ []AppdBounded
    /\ <>(returned # None)

(***************************************************************************)
(* One receive_prices call per pair with three sources each: the result    *)
(* dict is drawn at the start and the single step of each pair applies it. *)
(* The sources are fresh, or "c" has failed once and its backoff has just  *)
(* expired.                                                                *)
(***************************************************************************)
\* None, -1.0, 0.0, 100.0, 111.0
HealthPrices == {None, Some(-4), Some(0), Some(400), Some(444)}
HealthDicts(p) ==
    IF p = "btc/usd"
    THEN [{"a", "b", "c"} -> HealthPrices]
    ELSE {[a |-> Some(-4), b |-> Some(0), c |-> None],
          [a |-> Some(4),  b |-> Some(4), c |-> Some(4)]}
\* the observers are constructed at time 0; the time of the calls and the
\* health records before them
HealthStarts ==
    {[now |-> 0, status |-> NewStatus(AllSources)],
     [now |-> DEFAULT_BASE_BACKOFF_SECONDS,
      status |-> record_failure(NewStatus(AllSources), "c", 0)]}

InitHealth ==
    /\ \E start \in HealthStarts :
           /\ now = start.now
           /\ status = [p \in Pairs |-> start.status]
    /\ sources = [p \in Pairs |-> AllSources]
    /\ ret = NoRet
    /\ prices \in [Pairs -> UNION {HealthDicts(p) : p \in Pairs}]
    /\ \A p \in Pairs : prices[p] \in HealthDicts(p)
    /\ agg_result = [p \in Pairs |-> None]
    /\ drift_limit = Some(drift_limit_percent)
    /\ IdleLoop /\ IdleCache /\ IdleChain /\ IdleCall
    /\ decimals = [p \in Pairs |-> RcvDecimals(p)]
    /\ latest_round_data = [p \in Pairs |-> ObsRoundData(p)]
    /\ round_id = [p \in Pairs |-> latest_round_data[p][1]]
    /\ last_good_median =
           [p \in Pairs |-> seed_last_good_median(latest_round_data[p], decimals[p])]
    /\ observations = [p \in Pairs |-> <<>>]
    /\ last_submit = [p \in Pairs |-> 0]
    /\ tx = [p \in Pairs |-> None]
    /\ submit_result = [p \in Pairs |-> "none"]

NextHealth == \E p \in Pairs : Receive(p)

SpecHealth == InitHealth /\ [][NextHealth]_vars

\* source s of pair p is in backoff at time t
InBackoff(st, s, t) == st[s].backoff_until > t

(***************************************************************************)
(* C37: a source that returns any price that is not None is recorded as a  *)
(* success and is active for the next tick, also when the price is zero or *)
(* negative, is dropped as an outlier, or the aggregation of the tick      *)
(* fails; only a None result puts a source into backoff.                   *)
(***************************************************************************)
C37_OnlyNoneBacksOff ==
    [][\A p \in Pairs : ReceiveCall(p) =>
          \A s \in SeqToSet(sources[p]) :
              /\ prices[p][s] # None =>
                     /\ status'[p][s].total_successes = status[p][s].total_successes + 1
                     /\ status'[p][s].total_failures = status[p][s].total_failures
                     /\ status'[p][s].consecutive_failures = 0
                     /\ ~InBackoff(status'[p], s, now')
                     /\ s \in SeqToSet(get_active_sources(sources'[p], status'[p], now'))
              /\ InBackoff(status'[p], s, now') => prices[p][s] = None]_vars

\* one call succeeded although "c" was dropped as an outlier, the other
\* failed on a negative and a zero price; all four sources that answered
\* are counted as successes and none of them is in backoff
C37_Witness ==
    /\ agg_result["btc/usd"] # None /\ agg_result["usdt/usd"] # None
    /\ success(agg_result["btc/usd"][1])
    /\ DOMAIN agg_result["btc/usd"][1].metadata.dropped = {"c"}
    /\ status["btc/usd"]["c"].total_successes = 1
    /\ ~InBackoff(status["btc/usd"], "c", now)
    /\ error(agg_result["usdt/usd"][1]) = "insufficient_sources"
    /\ prices["usdt/usd"]["a"] = Some(-4) /\ prices["usdt/usd"]["b"] = Some(0)
    /\ \A s \in {"a", "b"} :
           /\ status["usdt/usd"][s].total_successes = 1
           /\ ~InBackoff(status["usdt/usd"], s, now)
    /\ InBackoff(status["usdt/usd"], "c", now)

\* the gather of pair p returns and the rest of the loop body runs
GatherStep(p) == active_sources[p] # <<>> /\ active_sources'[p] = <<>>

\* price is within drift_limit percent of the reference price of pair p
WithinDriftLimit(p, price) ==
    100 * Abs(price - last_good_median[p][1]) <= drift_limit[1] * last_good_median[p][1]

(***************************************************************************)
(* C38: a tick rejected with drift_too_large leaves last_good_median and   *)
(* the observations as they were, so the reference of the rejection stays  *)
(* the reference of the next tick; while a reference and a limit are set,  *)
(* a tick is accepted, and an observation appended or submitted, only when *)
(* its median is within drift_limit percent of that reference.             *)
(***************************************************************************)
C38_DriftRejectionSticks ==
    /\ [](\A p \in Pairs :
             (agg_result[p] # None /\ error(agg_result[p][1]) = "drift_too_large") =>
                 /\ last_good_median[p] = Some(agg_result[p][1].metadata.previous_price)
                 /\ ~WithinDriftLimit(p, agg_result[p][1].metadata.candidate_price))
    /\ [][\A p \in Pairs : GatherStep(p) =>
             LET r == agg_result'[p][1]
             IN  /\ error(r) = "drift_too_large" =>
                        /\ last_good_median'[p] = last_good_median[p]
                        /\ observations'[p] = observations[p]
                        /\ tx'[p] = tx[p]
                 /\ (observations'[p] # observations[p] \/ tx'[p] # tx[p]) =>
                        /\ success(r)
                        /\ last_good_median'[p] = r.price
                        /\ DriftArmed(p) => WithinDriftLimit(p, r.price[1])]_vars

\* both sources answered in three ticks, the first two were rejected (the
\* first submission holds a single observation, that of the third tick)
\* and the third came back within the limit of the reference it was seeded
\* with
C38_Witness ==
    LET p == "btc/usd"
    IN  /\ \A s \in SeqToSet(sources[p]) :
               /\ status[p][s].total_successes = 3
               /\ status[p][s].total_failures = 0
        /\ tx[p] # None
        /\ tx[p][1].round_id = latest_round_data[p][1] + 1
        /\ tx[p][1].startedAt = tx[p][1].updatedAt
        /\ tx[p][1].startedAt >= 2 * fetch_period
        /\ agg_result[p] # None /\ success(agg_result[p][1])

(***************************************************************************)
(* SourceManager with its whole interface: the operations that change the  *)
(* source list and the status records, called with tracked and untracked   *)
(* names on one manager.                                                   *)
(***************************************************************************)
\* at most this many failures are recorded per name
MaxOpsFailures == 2

\* the lists a manager is constructed with: the command line splits
\* --sources at the commas and keeps a name that is given twice
OpsSourceLists == {<<"a">>, <<"a", "b">>, <<"a", "a">>}
\* the names the operations are called with; "u" is never in a list
OpsNames == {"a", "u"}

\* list.remove(x): the first occurrence is removed
RECURSIVE list_remove(_, _)
list_remove(srcs, source) ==
    IF srcs = <<>> THEN <<>>
    ELSE IF Head(srcs) = source THEN Tail(srcs)
    ELSE <<Head(srcs)>> \o list_remove(Tail(srcs), source)

\* add_source: the new sources and _status
add_source(srcs, st, source) ==
    [sources |-> IF source \notin SeqToSet(srcs) THEN Append(srcs, source) ELSE srcs,
     status  |-> EnsureStatus(st, source)]

\* remove_source: the new sources and _status
remove_source(srcs, st, source) ==
    [sources |-> IF source \in SeqToSet(srcs) THEN list_remove(srcs, source) ELSE srcs,
     status  |-> Restrict(st, DOMAIN st \ {source})]

\* reset_source: the new _status
reset_source(st, source) ==
    IF source \in DOMAIN st THEN [st EXCEPT ![source] = SourceStatus] ELSE st

\* reset_all: the new _status
reset_all(srcs) == NewStatus(srcs)

InitOps ==
    /\ now = 1
    /\ \E srcs \in OpsSourceLists :
           /\ sources = [p \in Pairs |-> srcs]
           /\ status = [p \in Pairs |-> NewStatus(srcs)]
    /\ ret = NoRet
    /\ IdleAgg /\ IdleObs /\ IdleLoop /\ IdleCache /\ IdleChain /\ IdleCall

OpsFrame == UNCHANGED <<now, aggVars, obsVars, loopVars, cacheVars, chainVars, callVars>>

OpsRecordFailure(s) ==
    /\ EnsureStatus(status[SMPair], s)[s].total_failures < MaxOpsFailures
    /\ status' = [status EXCEPT ![SMPair] = record_failure(@, s, now)]
    /\ ret' = [op |-> "record_failure", source |-> s,
               value |-> record_failure_returns(status[SMPair], s), time |-> now]
    /\ UNCHANGED sources /\ OpsFrame

OpsRecordSuccess(s) ==
    /\ EnsureStatus(status[SMPair], s)[s].total_successes < MaxSuccesses
    /\ status' = [status EXCEPT ![SMPair] = record_success(@, s)]
    /\ ret' = [op |-> "record_success", source |-> s, value |-> 0, time |-> now]
    /\ UNCHANGED sources /\ OpsFrame

OpsAddSource(s) ==
    LET new == add_source(sources[SMPair], status[SMPair], s)
    IN  /\ sources' = [sources EXCEPT ![SMPair] = new.sources]
        /\ status' = [status EXCEPT ![SMPair] = new.status]
        /\ ret' = [op |-> "add_source", source |-> s, value |-> 0, time |-> now]
        /\ OpsFrame

OpsRemoveSource(s) ==
    LET new == remove_source(sources[SMPair], status[SMPair], s)
    IN  /\ sources' = [sources EXCEPT ![SMPair] = new.sources]
        /\ status' = [status EXCEPT ![SMPair] = new.status]
        /\ ret' = [op |-> "remove_source", source |-> s, value |-> 0, time |-> now]
        /\ OpsFrame

OpsResetSource(s) ==
    /\ status' = [status EXCEPT ![SMPair] = reset_source(@, s)]
    /\ ret' = [op |-> "reset_source", source |-> s, value |-> 0, time |-> now]
    /\ UNCHANGED sources /\ OpsFrame

OpsResetAll ==
    /\ status' = [status EXCEPT ![SMPair] = reset_all(sources[SMPair])]
    /\ ret' = [op |-> "reset_all", source |-> "", value |-> 0, time |-> now]
    /\ UNCHANGED sources /\ OpsFrame

\* get_active_sources(): self._status[s] raises KeyError for a name of
\* the list that has no status record
OpsGetActive ==
    /\ IF SeqToSet(sources[SMPair]) \subseteq DOMAIN status[SMPair]
       THEN ret' = [op |-> "get_active_sources", source |-> "",
                    value |-> get_active_sources(sources[SMPair], status[SMPair], now),
                    time |-> now]
       ELSE ret' = [op |-> "get_active_sources", source |-> "",
                    value |-> "KeyError", time |-> now]
    /\ UNCHANGED <<sources, status>> /\ OpsFrame

NextOps ==
    \/ \E s \in OpsNames : OpsRecordFailure(s)
    \/ \E s \in OpsNames : OpsRecordSuccess(s)
    \/ \E s \in OpsNames : OpsAddSource(s)
    \/ \E s \in OpsNames : OpsRemoveSource(s)
    \/ \E s \in OpsNames : OpsResetSource(s)
    \/ OpsResetAll
    \/ OpsGetActive

SpecOps == InitOps /\ [][NextOps]_vars

(***************************************************************************)
(* C39: after any sequence of SourceManager operations every name in the   *)
(* sources list has a status record, so get_active_sources never fails,    *)
(* and every status record has consecutive_failures <= total_failures and  *)
(* consecutive_failures > 0 whenever backoff_until > 0.                    *)
(***************************************************************************)
C39_StatusInvariants ==
    /\ SeqToSet(sources[SMPair]) \subseteq DOMAIN status[SMPair]
    /\ ~(ret.op = "get_active_sources" /\ ret.value = "KeyError")
    /\ \A s \in DOMAIN status[SMPair] :
           /\ status[SMPair][s].consecutive_failures <= status[SMPair][s].total_failures
           /\ status[SMPair][s].backoff_until > 0 =>
                  status[SMPair][s].consecutive_failures > 0

\* the health record new is old after one more success
AfterSuccess(old, new) ==
    new = [consecutive_failures |-> 0, backoff_until |-> 0,
           total_failures |-> old.total_failures,
           total_successes |-> old.total_successes + 1]

\* the health record new is old after one more failure at time t
AfterFailure(old, new, t) ==
    /\ new.consecutive_failures = old.consecutive_failures + 1
    /\ new.total_failures = old.total_failures + 1
    /\ new.total_successes = old.total_successes
    /\ new.backoff_until > t

(***************************************************************************)
(* C40: health is tracked per (pair, source): the record_failure and       *)
(* record_success calls of one pair's tick change only the records of the  *)
(* sources that were asked, each as its own answer and its own record      *)
(* before the tick say, and leave the records of the pair's other sources  *)
(* and every record of the other pairs unchanged.                          *)
(***************************************************************************)
C40_HealthPerPairAndSource ==
    [][\A p \in Pairs :
          /\ GatherStep(p) =>
                 /\ \A q \in Pairs \ {p} : status'[q] = status[q]
                 /\ DOMAIN status'[p] = DOMAIN status[p]
                 /\ \A s \in DOMAIN status[p] :
                        IF s \in SeqToSet(active_sources[p])
                        THEN \/ AfterSuccess(status[p][s], status'[p][s])
                             \/ AfterFailure(status[p][s], status'[p][s], now')
                        ELSE status'[p][s] = status[p][s]
          /\ status'[p] # status[p] => GatherStep(p)]_vars

\* source "a" of btc/usd failed once and is in backoff while "b" of the
\* same pair has answered twice since and is not, and "a" has answered
\* usdt/usd without a failure
C40_Witness ==
    /\ status["btc/usd"]["a"].consecutive_failures = 1
    /\ InBackoff(status["btc/usd"], "a", now)
    /\ status["btc/usd"]["b"].total_successes = 2
    /\ status["btc/usd"]["b"].total_failures = 0
    /\ ~InBackoff(status["btc/usd"], "b", now)
    /\ status["usdt/usd"]["a"].total_successes >= 1
    /\ status["usdt/usd"]["a"].total_failures = 0

====
